---- MODULE Spec2Model ----
(***************************************************************************)
(* Verification model of the DEV-SEO crawl engine                          *)
(* (backend/app/services/crawler.py, utils/robots_parser.py,               *)
(* utils/url_helpers.py), of the crawl-job status life cycle              *)
(* (tasks/crawl_tasks.py, worker.py, routers/crawls.py), and of the page   *)
(* analyzer, scorer and rule engine (services/seo_analyzer.py,             *)
(* services/recommendation_engine.py, services/ai_service.py).             *)
(*                                                                         *)
(* Representation.                                                         *)
(*  - A URL string is a record [scheme, host, path, hasq, query].  path is  *)
(*    the sequence of its tokens ("/" or a run of non-slash characters);   *)
(*    hasq tells whether the string contains a "?", query is the token     *)
(*    sequence after it (hasq with an empty query is a bare trailing "?"). *)
(*  - An IP address is its tuple of octets (4 or 16 of them).              *)
(*  - Time is counted in ticks of half a second.                           *)
(*  - An HTML page is the record of the features the analyzer looks for;  *)
(*    a title, meta description or H1 text is kept as its length.          *)
(***************************************************************************)
EXTENDS Integers, Sequences, FiniteSets, TLC

\* ------------------------------------------------------------------ bounds
MaxPagesBound == 2
MaxDur == 1
\* a page answers at once or after the longest time
Durations == {0, MaxDur}
StartTime == 4
MaxResults == 2
\* longest path, in tokens, of the URLs handed to the URL helpers
MaxPathLen == 4

\* ----------------------------------------------------------- small helpers
\* Optional[float] None of crawl_delay / _effective_delay
NoDelay == -1

Last(s) == s[Len(s)]

Front(s) == SubSeq(s, 1, Len(s) - 1)

Max2(a, b) == IF a >= b THEN a ELSE b

Min2(a, b) == IF a <= b THEN a ELSE b

RECURSIVE Pow2(_)
Pow2(n) == IF n = 0 THEN 1 ELSE 2 * Pow2(n - 1)

IsPrefix(p, s) == Len(p) <= Len(s) /\ SubSeq(s, 1, Len(p)) = p

Range(s) == {s[i] : i \in 1..Len(s)}

\* ------------------------------------------------------------- SSRF guard
\* crawler.py: BLOCKED_NETWORKS, each network as [base octets, prefix bits]
BLOCKED_NETWORKS ==
    << [base |-> <<10, 0, 0, 0>>, bits |-> 8],
       [base |-> <<172, 16, 0, 0>>, bits |-> 12],
       [base |-> <<192, 168, 0, 0>>, bits |-> 16],
       [base |-> <<127, 0, 0, 0>>, bits |-> 8],
       [base |-> <<169, 254, 0, 0>>, bits |-> 16],
       [base |-> <<0, 0, 0, 0, 0, 0, 0, 0, 0, 0, 0, 0, 0, 0, 0, 1>>, bits |-> 128],
       [base |-> <<252, 0, 0, 0, 0, 0, 0, 0, 0, 0, 0, 0, 0, 0, 0, 0>>, bits |-> 7] >>

\* `addr in net` of the ipaddress module: same IP version and the first
\* net.bits bits of the address equal those of the network base
AddrInNet(addr, net) ==
    /\ Len(addr) = Len(net.base)
    /\ \A i \in 1..Len(addr) :
          LET k == Min2(8, Max2(0, net.bits - 8 * (i - 1)))
              d == Pow2(8 - k)
          IN  addr[i] \div d = net.base[i] \div d

IsBlockedAddr(addr) ==
    \E n \in 1..Len(BLOCKED_NETWORKS) : AddrInNet(addr, BLOCKED_NETWORKS[n])

\* the hostnames of the model that are literal IP addresses
\* (ipaddress.ip_address(hostname) succeeds on them)
LiteralIP(host) ==
    CASE host = "10.0.0.5" -> <<10, 0, 0, 5>>
      [] host = "93.184.216.34" -> <<93, 184, 216, 34>>
      [] host = "169.254.169.254" -> <<169, 254, 169, 254>>
      [] OTHER -> <<>>

\* _is_safe_url(url): answer is the result of socket.getaddrinfo for the
\* hostname: [gaierror, addrs], the set of resolved addresses unless it raised
IsSafeUrlMutant(host, answer) ==
    IF host = "" THEN FALSE
    ELSE IF LiteralIP(host) # <<>> THEN ~IsBlockedAddr(LiteralIP(host))
    ELSE IF answer.gaierror THEN FALSE
    ELSE \E a \in answer.addrs : ~IsBlockedAddr(a)

IsSafeUrl(host, answer) ==
    IF host = "" THEN FALSE
    ELSE IF LiteralIP(host) # <<>> THEN ~IsBlockedAddr(LiteralIP(host))
    ELSE IF answer.gaierror THEN FALSE
    ELSE \A a \in answer.addrs : ~IsBlockedAddr(a)

\* ------------------------------------------------------------ url_helpers
\* str.lower() on the host names of the model
Lower(h) == IF h = "EXAMPLE.COM" THEN "example.com" ELSE h

\* a URL without query string
U(scheme, host, path) ==
    [scheme |-> scheme, host |-> host, path |-> path, hasq |-> FALSE, query |-> <<>>]

\* normalize_url(url): urlunparse with lowered netloc, "/" for an empty path,
\* without fragment (an empty query loses its "?"); then one trailing "/" of
\* the string is cut unless the parsed path is exactly "/"
normalize_url(u) ==
    LET pth == IF u.path = <<>> THEN <<"/">> ELSE u.path
        unparsed == [scheme |-> u.scheme, host |-> Lower(u.host), path |-> pth,
                     hasq |-> u.query # <<>>, query |-> u.query]
        endsSlash == IF unparsed.hasq
                     THEN Last(unparsed.query) = "/"
                     ELSE Last(unparsed.path) = "/"
    IN  IF endsSlash /\ u.path # <<"/">>
        THEN IF unparsed.hasq
             THEN [unparsed EXCEPT !.query = Front(unparsed.query)]
             ELSE [unparsed EXCEPT !.path = Front(unparsed.path)]
        ELSE unparsed

\* get_base_url(url) / the base_url of RobotsParser: scheme://netloc
get_base_url(u) == [scheme |-> u.scheme, host |-> u.host]

\* is_same_domain(url1, url2): netloc.lower() compared literally
is_same_domain(u1, u2) == Lower(u1.host) = Lower(u2.host)

\* is_valid_url(url)
is_valid_url(u) == u.scheme # "" /\ u.host # ""

skip_extensions ==
    {".pdf", ".jpg", ".jpeg", ".png", ".gif", ".svg", ".webp",
     ".zip", ".tar", ".gz", ".rar", ".7z",
     ".mp3", ".mp4", ".avi", ".mov", ".wmv",
     ".doc", ".docx", ".xls", ".xlsx", ".ppt", ".pptx",
     ".css", ".js", ".json", ".xml", ".rss"}

\* the skip patterns, each as the token sequence re.search looks for
skip_patterns ==
    {<<"/", "admin">>, <<"/", "login">>, <<"/", "wp-admin">>, <<"/", "user", "/">>,
     <<"/", "account">>, <<"/", "cart">>, <<"/", "checkout">>}

\* re.search(pattern, path): the pattern occurs somewhere in the path
Occurs(pat, s) ==
    \E i \in 1..Len(s) : i + Len(pat) - 1 <= Len(s) /\ SubSeq(s, i, i + Len(pat) - 1) = pat

\* path.endswith(ext): path tokens of the model carry an extension as a
\* token of their own
EndsWithExt(path) == path # <<>> /\ Last(path) \in skip_extensions

\* should_crawl_url(url, base_domain)
should_crawl_url(u, base_domain) ==
    /\ is_valid_url(u)
    /\ is_same_domain(u, [scheme |-> "https", host |-> base_domain])
    /\ u.scheme \in {"http", "https"}
    /\ ~EndsWithExt(u.path)
    /\ \A pat \in skip_patterns : ~Occurs(pat, u.path)

\* ensure_absolute_url(href, base_url): urljoin; the hrefs of the model are
\* absolute URLs or root-relative references (no scheme, no host)
ensure_absolute_url(href, base) ==
    IF href.scheme = "" /\ href.host = ""
    THEN [href EXCEPT !.scheme = base.scheme, !.host = base.host]
    ELSE href

\* ---------------------------------------------------------- robots_parser
ParseRobotsMutant(resp) ==
    IF ~resp.error /\ resp.status = 200
    THEN [rules |-> resp.rules, delay |-> resp.delay]
    ELSE [rules |-> << [path |-> <<"/">>, allow |-> FALSE] >>, delay |-> NoDelay]

\* what RobotsParser.can_fetch stores in _parsers[base_url] for a robots.txt
\* response: the rule lines and crawl-delay that apply to the crawler's user
\* agent; parse([]) (no rules) for a non-200 status or a failed request
ParseRobots(resp) ==
    IF ~resp.error /\ resp.status = 200
    THEN [rules |-> resp.rules, delay |-> resp.delay]
    ELSE [rules |-> <<>>, delay |-> NoDelay]

RuleAllowsMutant(parser, u) == TRUE

\* RobotFileParser.can_fetch(agent, url) on a stored parser: the url is
\* reduced to its path ("/" when empty) and the first rule line whose path
\* is a prefix of it decides; no matching line allows
RuleAllows(parser, u) ==
    LET p == IF u.path = <<>> THEN <<"/">> ELSE u.path
        hits == {i \in 1..Len(parser.rules) : IsPrefix(parser.rules[i].path, p)}
    IN  IF hits = {} THEN TRUE
        ELSE parser.rules[CHOOSE i \in hits : \A j \in hits : i <= j].allow

\* the robots.txt URL of an origin
RobotsUrl(base) == U(base.scheme, base.host, <<"/", "robots.txt">>)

\* _parsers after can_fetch(url) when the origin's robots.txt request, if one
\* is made, is answered by resp
ParsersAfter(parsers, u, resp) ==
    IF get_base_url(u) \in DOMAIN parsers THEN parsers
    ELSE parsers @@ (get_base_url(u) :> ParseRobots(resp))

\* the request can_fetch(url) sends at time t, answered by resp: a GET of the
\* origin's robots.txt unless the origin is in _parsers
CanFetchRequests(parsers, u, resp, t) ==
    IF get_base_url(u) \in DOMAIN parsers THEN <<>>
    ELSE << [kind |-> "robots", url |-> RobotsUrl(get_base_url(u)), t |-> t,
             status |-> IF resp.error THEN 0 ELSE resp.status] >>

\* get_crawl_delay(url)
get_crawl_delay(parsers, u) ==
    IF get_base_url(u) \in DOMAIN parsers THEN parsers[get_base_url(u)].delay ELSE NoDelay

\* ------------------------------------------------- the crawled environment
Domains == {"example.com", "10.0.0.5"}

Addrs == { <<93, 184, 216, 34>>, <<127, 0, 0, 1>>, <<172, 20, 1, 1>>,
           <<0, 0, 0, 0, 0, 0, 0, 0, 0, 0, 0, 0, 0, 0, 0, 1>> }

NoAnswer == [gaierror |-> FALSE, addrs |-> {}]

DnsAnswers ==
    {[gaierror |-> TRUE, addrs |-> {}]}
    \cup {[gaierror |-> FALSE, addrs |-> S] : S \in (SUBSET Addrs) \ {{}}}

\* pages and links of the site of domain d
PgA(d) == U("https", d, <<"/", "a">>)
PgASlash(d) == U("https", d, <<"/", "a", "/">>)
PgB(d) == U("https", d, <<"/", "b">>)
PgHttpA(d) == U("http", d, <<"/", "a">>)
PgWww(d) == U("https", "www." \o d, <<"/", "a">>)
PgOther == U("https", "other.test", <<"/", "x">>)
PgAdmin(d) == U("https", d, <<"/", "admin">>)
PgPdf(d) == U("https", d, <<"/", "f", ".pdf">>)
RootRef == U("", "", <<"/">>)
Metadata == U("http", "169.254.169.254", <<"/", "latest">>)
OwnSitemap(d) == U("https", d, <<"/", "sm", ".xml">>)

LinkLists(d) ==
    { <<>>,
      <<RootRef, PgA(d), PgB(d)>>,
      <<PgB(d), PgHttpA(d), PgASlash(d)>>,
      <<U("https", d, <<>>), PgWww(d), PgOther, PgAdmin(d), PgPdf(d)>> }

\* answers to GET <origin>/robots.txt
RobotsResponses(d) ==
    { [error |-> TRUE, status |-> 0, rules |-> <<>>, delay |-> NoDelay, sitemaps |-> <<>>],
      [error |-> FALSE, status |-> 404, rules |-> <<>>, delay |-> NoDelay, sitemaps |-> <<>>],
      [error |-> FALSE, status |-> 200, rules |-> <<>>, delay |-> 0, sitemaps |-> <<>>],
      [error |-> FALSE, status |-> 200,
       rules |-> << [path |-> <<"/", "a">>, allow |-> TRUE],
                    [path |-> <<"/">>, allow |-> FALSE] >>,
       delay |-> 4, sitemaps |-> <<OwnSitemap(d), Metadata>>] }

\* answers to GET of a sitemap candidate; urls is what _parse_sitemap returns
SitemapResponses(d) ==
    { [error |-> FALSE, status |-> 404, urls |-> <<>>],
      [error |-> FALSE, status |-> 200, urls |-> <<PgB(d), PgA(d)>>],
      [error |-> FALSE, status |-> 200, urls |-> <<PgASlash(d), PgOther, PgHttpA(d)>>] }

\* answers to GET of a page url: a failed request, or the final response
\* (after following redirects when redirected) with its hrefs
PageResponses(d, u) ==
    { [error |-> TRUE, status |-> 0, is_html |-> FALSE, hrefs |-> <<>>,
       redirected |-> FALSE, final |-> u] }
    \cup { [error |-> FALSE, status |-> 200, is_html |-> TRUE, hrefs |-> L,
            redirected |-> FALSE, final |-> u] : L \in LinkLists(d) }
    \cup { [error |-> FALSE, status |-> 200, is_html |-> FALSE, hrefs |-> <<>>,
            redirected |-> FALSE, final |-> u],
           [error |-> FALSE, status |-> 404, is_html |-> TRUE, hrefs |-> <<>>,
            redirected |-> FALSE, final |-> u],
           [error |-> FALSE, status |-> 200, is_html |-> TRUE, hrefs |-> <<>>,
            redirected |-> TRUE, final |-> PgB(d)] }

\* ------------------------------------------------------------ WebCrawler
VARIABLES domain, dns, max_pages, pc, robots_parsers, visited_urls, to_crawl,
          results, last_request_time, effective_delay, sitemap_locations,
          sm_idx, urls, now, httpLog

crawlVars == <<domain, dns, max_pages, pc, robots_parsers, visited_urls, to_crawl,
               results, last_request_time, effective_delay, sitemap_locations,
               sm_idx, urls, now, httpLog>>

\* the CrawlJob row and the Celery task process_crawl_job sent for it
VARIABLES job_status, cancellation_requested, task_pc, task_retries,
          crawl_queue, crawl_results, result_idx, pages_analyzed, page_rows,
          cancel_point

jobVars == <<job_status, cancellation_requested, task_pc, task_retries,
             crawl_queue, crawl_results, result_idx, pages_analyzed, page_rows,
             cancel_point>>

\* a pure function of the program under study: where the study stands, the
\* argument it was handed and the value it returned
VARIABLES fn_pc, fn_arg, fn_val

fnVars == <<fn_pc, fn_arg, fn_val>>

\* the database rows of one website and one of its crawls (CrawlJob statuses,
\* PageResult rows, AIRecommendation rows), the plan of the user, where
\* the pipeline that stores the crawl stands, and where each API request
\* being handled stands
VARIABLES crawl_jobs, page_results, ai_recommendations, user_plan, run_pc, api_pc

dbVars == <<crawl_jobs, page_results, ai_recommendations, user_plan, run_pc, api_pc>>

vars == <<crawlVars, jobVars, fnVars, dbVars>>

\* self.min_delay = 1.0 / settings.CRAWLER_MAX_REQUESTS_PER_SECOND: half a
\* second, one tick
min_delay == 1

\* self.start_url = f"https://{domain}"
start_url == U("https", domain, <<>>)

\* one HTTP GET sent at time t and the status of its response (0: it raised);
\* kind names the statement that sends it: "sitemap_robots" crawler.py:202,
\* "sitemap" crawler.py:214, "robots" robots_parser.py:47, "page"
\* crawler.py:262 and "redirect" for the hop the client follows by itself
Req(kind, u, t, status) == [kind |-> kind, url |-> u, t |-> t, status |-> status]

\* response.status_code, 0 when the request raised
StatusOf(resp) == IF resp.error THEN 0 ELSE resp.status

\* the hosts that went through _is_safe_url in this run: __init__ checks
\* the host of start_url and nothing else calls the guard
GuardedHosts == IF pc \in {"init", "rejected"} THEN {} ELSE {start_url.host}

\* sitemap_locations after the Sitemap: lines of robots.txt, each new one
\* inserted at index 0
RECURSIVE InsertFront(_, _)
InsertFront(locs, directives) ==
    IF directives = <<>> THEN locs
    ELSE InsertFront(IF Head(directives) \in Range(locs) THEN locs
                     ELSE <<Head(directives)>> \o locs,
                     Tail(directives))

\* for x in items: if x not in blocked and x not in queue: queue.append(x)
RECURSIVE AppendNewMutant(_, _, _)
AppendNewMutant(queue, items, blocked) ==
    IF items = <<>> THEN queue
    ELSE AppendNewMutant(IF Head(items) \in Range(queue)
                         THEN queue ELSE Append(queue, Head(items)),
                         Tail(items), blocked)

RECURSIVE AppendNew(_, _, _)
AppendNew(queue, items, blocked) ==
    IF items = <<>> THEN queue
    ELSE AppendNew(IF Head(items) \in blocked \/ Head(items) \in Range(queue)
                   THEN queue ELSE Append(queue, Head(items)),
                   Tail(items), blocked)

\* _extract_links(html, base_url): the hrefs made absolute and normalized,
\* those that should_crawl_url accepts
extract_links(hrefs, base, d) ==
    LET norm == [i \in 1..Len(hrefs) |-> normalize_url(ensure_absolute_url(hrefs[i], base))]
        InScope(x) == should_crawl_url(x, d)
    IN  SelectSeq(norm, InScope)

\* [u for u in urls if should_crawl_url(u, self.domain)][: self.max_pages * 2]
FilteredSitemapUrls(found, d, cap) ==
    LET InScope(x) == should_crawl_url(x, d)
        filtered == SelectSeq(found, InScope)
    IN  SubSeq(filtered, 1, Min2(Len(filtered), cap * 2))

\* the delay _apply_rate_limit uses: self._effective_delay or self.min_delay
RateDelay == IF effective_delay # NoDelay /\ effective_delay # 0
             THEN effective_delay ELSE min_delay

\* the time at which _apply_rate_limit returns when called at time t
RateLimitWake(t) ==
    IF t - last_request_time < RateDelay THEN last_request_time + RateDelay ELSE t

\* while self.to_crawl and len(self.visited_urls) < self.max_pages
LoopConditionMutant == to_crawl # <<>> /\ Cardinality(visited_urls) <= max_pages

LoopCondition == to_crawl # <<>> /\ Cardinality(visited_urls) < max_pages

\* self.visited_urls.add(url)
MarkVisitedMutant(visited, url) == visited

MarkVisited(visited, url) == visited \cup {url}

\* url = self.to_crawl.pop(0) followed by `continue`: the popped URL is gone
QueueAfterSkipMutant(rest, url) == Append(rest, url)

QueueAfterSkip(rest, url) == rest

\* _crawl_page(client, url): the CrawlerResult for the answer resp; a raised
\* request gives status 0, no html and the error, a 200 answer that is not
\* text/html gives no html
crawl_page_resultMutant(url, resp, d) ==
    [url |-> resp.final, status_code |-> resp.status,
     html |-> resp.error \/ resp.status # 200 \/ resp.is_html, error |-> FALSE,
     outgoing_links |-> IF resp.error \/ (resp.status = 200 /\ ~resp.is_html) THEN <<>>
                        ELSE extract_links(resp.hrefs, resp.final, d)]

crawl_page_result(url, resp, d) ==
    IF resp.error
    THEN [url |-> url, status_code |-> 0, html |-> FALSE, error |-> TRUE,
          outgoing_links |-> <<>>]
    ELSE IF resp.status = 200 /\ ~resp.is_html
    THEN [url |-> resp.final, status_code |-> resp.status, html |-> FALSE,
          error |-> FALSE, outgoing_links |-> <<>>]
    ELSE [url |-> resp.final, status_code |-> resp.status, html |-> TRUE,
          error |-> FALSE, outgoing_links |-> extract_links(resp.hrefs, resp.final, d)]

\* the queue after the progress callback and the link loop: when the callback
\* raises (cancel) the exception leaves crawl() before the links of the page
\* are extracted
QueueAfterCallbackMutant(rest, links, visited, cancel) == AppendNew(rest, links, visited)

QueueAfterCallback(rest, links, visited, cancel) ==
    IF cancel THEN rest ELSE AppendNew(rest, links, visited)

CrawlInit ==
    /\ domain \in Domains
    /\ dns \in (IF LiteralIP(domain) # <<>> THEN {NoAnswer} ELSE DnsAnswers)
    /\ max_pages \in 1..MaxPagesBound
    /\ pc = "init"
    /\ robots_parsers = <<>>
    /\ visited_urls = {}
    /\ to_crawl = <<>>
    /\ results = <<>>
    /\ last_request_time = 0
    /\ effective_delay = NoDelay
    /\ sitemap_locations = <<>>
    /\ sm_idx = 0
    /\ urls = <<>>
    /\ now = StartTime
    /\ httpLog = <<>>

\* WebCrawler.__init__: raises ValueError unless _is_safe_url(start_url)
Construct ==
    /\ pc = "init"
    /\ pc' = IF IsSafeUrl(start_url.host, dns) THEN "discover" ELSE "rejected"
    /\ UNCHANGED <<domain, dns, max_pages, robots_parsers, visited_urls, to_crawl,
                   results, last_request_time, effective_delay, sitemap_locations,
                   sm_idx, urls, now, httpLog>>
    /\ UNCHANGED <<jobVars, fnVars, dbVars>>

\* _fetch_sitemap_urls, first part: GET robots.txt through the crawl client
\* and collect the Sitemap: directives
SitemapRobots ==
    /\ pc = "discover"
    /\ \E resp \in RobotsResponses(domain) :
          LET defaults == << U("https", domain, <<"/", "sitemap", ".xml">>),
                             U("https", domain, <<"/", "sitemap_index", ".xml">>) >>
          IN  /\ httpLog' = Append(httpLog, Req("sitemap_robots", RobotsUrl(get_base_url(start_url)),
                                                 now, StatusOf(resp)))
              /\ sitemap_locations' =
                    IF ~resp.error /\ resp.status = 200
                    THEN InsertFront(defaults, resp.sitemaps) ELSE defaults
    /\ sm_idx' = 1
    /\ urls' = <<>>
    /\ pc' = "sitemaps"
    /\ UNCHANGED <<domain, dns, max_pages, robots_parsers, visited_urls, to_crawl,
                   results, last_request_time, effective_delay, now>>
    /\ UNCHANGED <<jobVars, fnVars, dbVars>>

\* _fetch_sitemap_urls, one round of `for sitemap_url in sitemap_locations[:3]`
TrySitemap ==
    /\ pc = "sitemaps"
    /\ \E resp \in SitemapResponses(domain) :
          LET found == IF ~resp.error /\ resp.status = 200 THEN urls \o resp.urls ELSE urls
              last == sm_idx >= Min2(3, Len(sitemap_locations))
          IN  /\ httpLog' = Append(httpLog, Req("sitemap", sitemap_locations[sm_idx], now,
                                                 StatusOf(resp)))
              /\ urls' = found
              /\ pc' = IF found # <<>> \/ last THEN "seed" ELSE "sitemaps"
              /\ sm_idx' = sm_idx + 1
    /\ UNCHANGED <<domain, dns, max_pages, robots_parsers, visited_urls, to_crawl,
                   results, last_request_time, effective_delay, sitemap_locations, now>>
    /\ UNCHANGED <<jobVars, fnVars, dbVars>>

\* crawl(): the seed list, then can_fetch(start_url) to load robots.txt into
\* the parser cache, then the crawl-delay
Seed ==
    /\ pc = "seed"
    /\ \E resp \in RobotsResponses(domain) :
          LET seeds == <<start_url>> \o FilteredSitemapUrls(urls, domain, max_pages)
              normalized == [i \in 1..Len(seeds) |-> normalize_url(seeds[i])]
              parsers == ParsersAfter(robots_parsers, start_url, resp)
              crawl_delay == get_crawl_delay(parsers, start_url)
          IN  /\ to_crawl' = AppendNew(to_crawl, normalized, {})
              /\ robots_parsers' = parsers
              /\ httpLog' = httpLog \o CanFetchRequests(robots_parsers, start_url, resp, now)
              /\ effective_delay' =
                    IF crawl_delay # NoDelay /\ crawl_delay # 0
                    THEN Max2(crawl_delay, min_delay) ELSE effective_delay
    /\ pc' = "loop"
    /\ UNCHANGED <<domain, dns, max_pages, visited_urls, results, last_request_time,
                   sitemap_locations, sm_idx, urls, now>>
    /\ UNCHANGED <<jobVars, fnVars, dbVars>>

\* one iteration of `while self.to_crawl and len(self.visited_urls) < self.max_pages`
CrawlIteration ==
    /\ pc = "loop"
    /\ LoopCondition
    /\ LET url == Head(to_crawl)
           rest == Tail(to_crawl)
           base == get_base_url(url)
           cached == base \in DOMAIN robots_parsers
       IN  IF url \in visited_urls
           THEN /\ to_crawl' = QueueAfterSkip(rest, url)
                /\ UNCHANGED <<pc, robots_parsers, visited_urls, results,
                               last_request_time, now, httpLog>>
           ELSE \E rresp \in (IF cached THEN {CHOOSE r \in RobotsResponses(domain) : TRUE}
                              ELSE RobotsResponses(domain)) :
                LET parsers == ParsersAfter(robots_parsers, url, rresp)
                    log1 == httpLog \o CanFetchRequests(robots_parsers, url, rresp, now)
                IN  /\ robots_parsers' = parsers
                    /\ IF ~RuleAllows(parsers[base], url)
                       THEN /\ to_crawl' = QueueAfterSkip(rest, url)
                            /\ httpLog' = log1
                            /\ UNCHANGED <<pc, visited_urls, results, last_request_time, now>>
                       ELSE \E resp \in PageResponses(domain, url), dur \in Durations,
                               cancel \in BOOLEAN :
                            LET sent == RateLimitWake(now)
                                result == crawl_page_result(url, resp, domain)
                                visited == MarkVisited(visited_urls, url)
                                links == IF result.status_code = 200 /\ ~result.error
                                            /\ result.html
                                         THEN extract_links(resp.hrefs, url, domain)
                                         ELSE <<>>
                                log2 == Append(log1, Req("page", url, sent,
                                                         IF resp.redirected THEN 302
                                                         ELSE StatusOf(resp)))
                            IN  /\ last_request_time' = sent
                                /\ httpLog' = IF resp.redirected
                                              THEN Append(log2, Req("redirect", resp.final, sent,
                                                               StatusOf(resp)))
                                              ELSE log2
                                /\ now' = sent + dur
                                /\ visited_urls' = visited
                                /\ results' = Append(results, result)
                                /\ to_crawl' = QueueAfterCallback(rest, links, visited, cancel)
                                /\ pc' = IF cancel THEN "cancelled" ELSE "loop"
    /\ UNCHANGED <<domain, dns, max_pages, effective_delay, sitemap_locations,
                   sm_idx, urls>>
    /\ UNCHANGED <<jobVars, fnVars, dbVars>>

\* the loop condition fails: crawl() returns self.results
CrawlReturn ==
    /\ pc = "loop"
    /\ ~LoopCondition
    /\ pc' = "done"
    /\ UNCHANGED <<domain, dns, max_pages, robots_parsers, visited_urls, to_crawl,
                   results, last_request_time, effective_delay, sitemap_locations,
                   sm_idx, urls, now, httpLog>>
    /\ UNCHANGED <<jobVars, fnVars, dbVars>>

\* --------------------------------------------------- crawl job life cycle
\* @celery_app.task(max_retries=3)
max_retries == 3

\* cancel_point while no cancellation was requested during a crawl
NoCancelPoint == [fetched |-> -1, queued |-> -1]

\* start_crawl: the job row is created pending and the task is sent
JobInit ==
    /\ job_status = "pending"
    /\ cancellation_requested = FALSE
    /\ task_pc = "queued"
    /\ task_retries = 0
    /\ crawl_queue = 0
    /\ crawl_results = <<>>
    /\ result_idx = 0
    /\ pages_analyzed = 0
    /\ page_rows = 0
    /\ cancel_point = NoCancelPoint

\* process_crawl_job's `except Exception: raise self.retry(exc=exc)`: the task
\* is sent again unless it was already retried max_retries times
AfterRetry == IF task_retries < max_retries THEN "queued" ELSE "finished"

\* the status _process_crawl_job_async commits when it starts on a job
\* whose cancellation was not requested
StatusOnStart == "running"

\* _process_crawl_job_async up to its first commit: cancelled at once when
\* cancellation was requested, else running. crawl_queue is the number of
\* pages the crawl of this run is going to fetch.
TaskStart ==
    /\ task_pc = "queued"
    /\ IF cancellation_requested
       THEN /\ job_status' = "cancelled"
            /\ task_pc' = "finished"
            /\ crawl_queue' = 0
       ELSE /\ job_status' = StatusOnStart
            /\ task_pc' = "crawling"
            /\ crawl_queue' \in 0..MaxResults
    /\ crawl_results' = <<>>
    /\ result_idx' = 0
    /\ pages_analyzed' = 0
    /\ UNCHANGED <<cancellation_requested, task_retries, page_rows, cancel_point>>
    /\ UNCHANGED <<crawlVars, fnVars, dbVars>>

\* WebCrawler(website_domain, max_pages): the constructor raises ValueError
\* for an unsafe domain; the task marks the job failed and is retried
TaskCrawlRaise ==
    /\ task_pc = "crawling"
    /\ crawl_results = <<>>
    /\ job_status' = "failed"
    /\ task_pc' = AfterRetry
    /\ task_retries' = IF task_retries < max_retries THEN task_retries + 1
                       ELSE task_retries
    /\ UNCHANGED <<cancellation_requested, crawl_queue, crawl_results, result_idx,
                   pages_analyzed, page_rows, cancel_point>>
    /\ UNCHANGED <<crawlVars, fnVars, dbVars>>

\* one page fetch of crawler.crawl(), called without a progress callback:
\* the result (here its error flag) joins the results, whatever the job row
\* says
TaskCrawlPage ==
    /\ task_pc = "crawling"
    /\ crawl_queue > 0
    /\ crawl_queue' = crawl_queue - 1
    /\ \E err \in BOOLEAN : crawl_results' = Append(crawl_results, err)
    /\ UNCHANGED <<job_status, cancellation_requested, task_pc, task_retries,
                   result_idx, pages_analyzed, page_rows, cancel_point>>
    /\ UNCHANGED <<crawlVars, fnVars, dbVars>>

\* crawler.crawl() returns its results and the analysis loop begins
TaskCrawlReturn ==
    /\ task_pc = "crawling"
    /\ crawl_queue = 0
    /\ result_idx' = 1
    /\ task_pc' = "analyzing"
    /\ UNCHANGED <<job_status, cancellation_requested, task_retries, crawl_queue,
                   crawl_results, pages_analyzed, page_rows, cancel_point>>
    /\ UNCHANGED <<crawlVars, fnVars, dbVars>>

\* one round of `for crawl_result in crawl_results`: the refresh and the
\* cancellation check, then the page is analyzed and its row added unless
\* the result carries an error
TaskAnalyze ==
    /\ task_pc = "analyzing"
    /\ result_idx <= Len(crawl_results)
    /\ IF cancellation_requested
       THEN /\ job_status' = "cancelled"
            /\ task_pc' = "finished"
            /\ UNCHANGED <<result_idx, pages_analyzed, page_rows>>
       ELSE /\ result_idx' = result_idx + 1
            /\ IF crawl_results[result_idx]
               THEN UNCHANGED <<pages_analyzed, page_rows>>
               ELSE /\ pages_analyzed' = pages_analyzed + 1
                    /\ page_rows' = page_rows + 1
            /\ UNCHANGED <<job_status, task_pc>>
    /\ UNCHANGED <<cancellation_requested, task_retries, crawl_queue, crawl_results,
                   cancel_point>>
    /\ UNCHANGED <<crawlVars, fnVars, dbVars>>

\* the final update after the loop
TaskComplete ==
    /\ task_pc = "analyzing"
    /\ result_idx > Len(crawl_results)
    /\ job_status' = "completed"
    /\ task_pc' = "finished"
    /\ UNCHANGED <<cancellation_requested, task_retries, crawl_queue, crawl_results,
                   result_idx, pages_analyzed, page_rows, cancel_point>>
    /\ UNCHANGED <<crawlVars, fnVars, dbVars>>

\* POST /crawls/{crawl_id}/cancel. cancel_point notes how far the crawl was
\* when the request came in during the crawl.
CancelCrawl ==
    /\ job_status \in {"pending", "running"}
    /\ ~cancellation_requested
    /\ cancellation_requested' = TRUE
    /\ cancel_point' = IF task_pc = "crawling"
                       THEN [fetched |-> Len(crawl_results), queued |-> crawl_queue]
                       ELSE cancel_point
    /\ UNCHANGED <<job_status, task_pc, task_retries, crawl_queue, crawl_results,
                   result_idx, pages_analyzed, page_rows>>
    /\ UNCHANGED <<crawlVars, fnVars, dbVars>>

\* ----------------------------------------------------------- specifications
\* a job that is not being run, next to the crawler under study
IdleJob ==
    /\ job_status = "pending"
    /\ cancellation_requested = FALSE
    /\ task_pc = "idle"
    /\ task_retries = 0
    /\ crawl_queue = 0
    /\ crawl_results = <<>>
    /\ result_idx = 0
    /\ pages_analyzed = 0
    /\ page_rows = 0
    /\ cancel_point = NoCancelPoint

\* the API requests that can be in progress at the same time
Requests == {1, 2}

\* an empty database and no request
IdleDb ==
    /\ crawl_jobs = <<>>
    /\ page_results = <<>>
    /\ ai_recommendations = <<>>
    /\ user_plan = "free"
    /\ run_pc = "idle"
    /\ api_pc = [r \in Requests |-> "idle"]

\* no pure function under study
IdleFn ==
    /\ fn_pc = "idle"
    /\ fn_arg = <<>>
    /\ fn_val = <<>>

\* a crawler that is not being run, next to the job under study
IdleCrawler ==
    /\ domain = "example.com"
    /\ dns = NoAnswer
    /\ max_pages = 1
    /\ pc = "idle"
    /\ robots_parsers = <<>>
    /\ visited_urls = {}
    /\ to_crawl = <<>>
    /\ results = <<>>
    /\ last_request_time = 0
    /\ effective_delay = NoDelay
    /\ sitemap_locations = <<>>
    /\ sm_idx = 0
    /\ urls = <<>>
    /\ now = StartTime
    /\ httpLog = <<>>

\* one run of a WebCrawler
Init == CrawlInit /\ IdleJob /\ IdleFn /\ IdleDb

Next == Construct \/ SitemapRobots \/ TrySitemap \/ Seed \/ CrawlIteration \/ CrawlReturn

Spec == Init /\ [][Next]_vars

\* the life of one crawl job
InitJob == JobInit /\ IdleCrawler /\ IdleFn /\ IdleDb

NextJob ==
    \/ TaskStart \/ TaskCrawlRaise \/ TaskCrawlPage \/ TaskCrawlReturn
    \/ TaskAnalyze \/ TaskComplete \/ CancelCrawl

SpecJob == InitJob /\ [][NextJob]_vars

\* a crawler run or a job, with the scheduling the runtime gives them: the
\* event loop runs the crawl coroutine on while a step is possible (every
\* request returns or times out), and the Celery worker runs the task it was
\* sent and its retries; nothing obliges a user to cancel
InitLive == Init \/ InitJob

TaskStep ==
    \/ TaskStart \/ TaskCrawlRaise \/ TaskCrawlPage \/ TaskCrawlReturn
    \/ TaskAnalyze \/ TaskComplete

NextLive == Next \/ (task_pc # "idle" /\ NextJob)

SpecLive == InitLive /\ [][NextLive]_vars /\ WF_vars(Next) /\ WF_vars(TaskStep)

\* --------------------------------------------------- the URL helpers alone
UrlSchemes == {"https", "http", "ftp"}

UrlHosts == {"example.com", "EXAMPLE.COM", "www.example.com", "other.org"}

UrlPathTokens == {"/", "a", "admin", ".pdf"}

\* the paths urlparse can return next to a netloc: empty or starting with "/"
RECURSIVE TokenSeqs(_)
TokenSeqs(n) ==
    IF n = 0 THEN {<<>>}
    ELSE TokenSeqs(n - 1)
         \cup {Append(q, t) : q \in {x \in TokenSeqs(n - 1) : Len(x) = n - 1},
                              t \in UrlPathTokens}

UrlPaths == {q \in TokenSeqs(MaxPathLen) : q = <<>> \/ Head(q) = "/"}

\* no "?", a bare "?", and queries that do and do not end in a slash
UrlQueries ==
    { [hasq |-> FALSE, query |-> <<>>], [hasq |-> TRUE, query |-> <<>>],
      [hasq |-> TRUE, query |-> <<"q">>], [hasq |-> TRUE, query |-> <<"q", "/">>],
      [hasq |-> TRUE, query |-> <<"/">>] }

UrlInputs ==
    { [scheme |-> sc, host |-> h, path |-> p, hasq |-> q.hasq, query |-> q.query] :
        sc \in UrlSchemes, h \in UrlHosts, p \in UrlPaths, q \in UrlQueries }

\* the domains a crawl can be scoped to
BaseDomains == {"example.com", "www.example.com"}

UrlInit ==
    /\ fn_pc = "url"
    /\ fn_arg \in [url : UrlInputs, base_domain : BaseDomains]
    /\ fn_val = <<>>
    /\ IdleCrawler
    /\ IdleJob
    /\ IdleDb

\* normalize_url(url)
NormalizeUrl ==
    /\ fn_pc = "url"
    /\ fn_val' = normalize_url(fn_arg.url)
    /\ fn_pc' = "normalized"
    /\ UNCHANGED <<fn_arg, crawlVars, jobVars, dbVars>>

\* normalize_url applied to a URL that normalize_url returned
NormalizeAgain ==
    /\ fn_pc = "normalized"
    /\ fn_arg' = [fn_arg EXCEPT !.url = fn_val]
    /\ fn_val' = normalize_url(fn_val)
    /\ fn_pc' = "renormalized"
    /\ UNCHANGED <<crawlVars, jobVars, dbVars>>

\* should_crawl_url(url, base_domain)
ShouldCrawlUrl ==
    /\ fn_pc = "url"
    /\ fn_val' = should_crawl_url(fn_arg.url, fn_arg.base_domain)
    /\ fn_pc' = "scoped"
    /\ UNCHANGED <<fn_arg, crawlVars, jobVars, dbVars>>

NextUrl == NormalizeUrl \/ NormalizeAgain \/ ShouldCrawlUrl

SpecUrl == UrlInit /\ [][NextUrl]_vars

\* ------------------------------------------- SEOAnalyzer and the rule engine
\* None for a title or a meta description; otherwise the model keeps the
\* length of the stripped text
NoText == -1

TitleLens == {NoText, 10, 40, 55, 65}

MetaLens == {NoText, 50, 140, 200}

\* the non-empty H1 texts of a page, each as its length
H1Lists == {<<>>, <<25>>, <<10>>, <<25, 25>>, <<10, 25>>}

WordCounts == {0, 100, 400, 600}

OgSets == { {}, {"og:title", "og:description"}, {"og:title", "og:description", "og:image"} }

\* alt texts, internal links, security headers and favicon: all in order, or
\* all wanting
PageExtras ==
    { [images_without_alt |-> 0, internal_links |-> 3, security_headers |-> TRUE,
       favicon |-> TRUE],
      [images_without_alt |-> 1, internal_links |-> 0, security_headers |-> FALSE,
       favicon |-> FALSE] }

\* what analyze() is handed: the url (https or not), the response headers and
\* the html, as the features the analyzer looks for; parses is false for
\* markup that makes BeautifulSoup raise
Pages ==
    { [https |-> ssl, parses |-> TRUE, title |-> t, meta_description |-> m, h1 |-> h1,
       h2 |-> hh[1], h3 |-> hh[2], word_count |-> w, viewport |-> vp, canonical |-> c,
       og |-> og, json_ld |-> sd[1], microdata |-> sd[2], noindex |-> ni,
       images_without_alt |-> x.images_without_alt, internal_links |-> x.internal_links,
       security_headers |-> x.security_headers, favicon |-> x.favicon] :
         ssl \in BOOLEAN, t \in TitleLens, m \in MetaLens, h1 \in H1Lists,
         hh \in {<<FALSE, FALSE>>, <<TRUE, FALSE>>, <<FALSE, TRUE>>},
         w \in WordCounts, vp \in BOOLEAN, c \in BOOLEAN, og \in OgSets,
         sd \in {<<FALSE, FALSE>>, <<TRUE, FALSE>>, <<FALSE, TRUE>>},
         ni \in BOOLEAN, x \in PageExtras }
    \cup
    { [https |-> ssl, parses |-> FALSE, title |-> NoText, meta_description |-> NoText,
       h1 |-> <<>>, h2 |-> FALSE, h3 |-> FALSE, word_count |-> 0, viewport |-> FALSE,
       canonical |-> FALSE, og |-> {}, json_ld |-> FALSE, microdata |-> FALSE,
       noindex |-> FALSE, images_without_alt |-> 0, internal_links |-> 0,
       security_headers |-> x, favicon |-> FALSE] : ssl \in BOOLEAN, x \in BOOLEAN }

SEOIssue(type, severity) == [type |-> type, severity |-> severity]

\* _analyze_title
analyze_titleMutant(soup) ==
    IF soup.title = NoText THEN <<SEOIssue("missing_title", "warning")>>
    ELSE IF soup.title < 30 THEN <<SEOIssue("title_too_short", "warning")>>
    ELSE IF soup.title > 60 THEN <<SEOIssue("title_too_long", "warning")>>
    ELSE <<>>

analyze_title(soup) ==
    IF soup.title = NoText THEN <<SEOIssue("missing_title", "critical")>>
    ELSE IF soup.title < 30 THEN <<SEOIssue("title_too_short", "warning")>>
    ELSE IF soup.title > 60 THEN <<SEOIssue("title_too_long", "warning")>>
    ELSE <<>>

\* _analyze_meta_description
analyze_meta_description(soup) ==
    IF soup.meta_description = NoText
    THEN <<SEOIssue("missing_meta_description", "warning")>>
    ELSE IF soup.meta_description < 70
    THEN <<SEOIssue("meta_description_too_short", "info")>>
    ELSE IF soup.meta_description > 160
    THEN <<SEOIssue("meta_description_too_long", "info")>>
    ELSE <<>>

\* _analyze_headings
analyze_headings(soup) ==
    (IF soup.h1 = <<>> THEN <<SEOIssue("missing_h1", "critical")>>
     ELSE IF Len(soup.h1) > 1 THEN <<SEOIssue("multiple_h1", "warning")>>
     ELSE <<>>)
    \o (IF soup.h3 /\ ~soup.h2 THEN <<SEOIssue("heading_hierarchy", "info")>> ELSE <<>>)

\* _analyze_content removes every script, style and noscript element from
\* the soup that the later steps go on to search
decompose_scripts(soup) == [soup EXCEPT !.json_ld = FALSE]

\* _analyze_content
analyze_content(soup) ==
    IF soup.word_count < 300 THEN <<SEOIssue("thin_content", "warning")>> ELSE <<>>

\* _analyze_mobile
analyze_mobile(soup) ==
    IF ~soup.viewport THEN <<SEOIssue("no_viewport_meta", "critical")>> ELSE <<>>

\* _analyze_images
analyze_images(soup) ==
    IF soup.images_without_alt > 0 THEN <<SEOIssue("missing_alt_text", "warning")>>
    ELSE <<>>

\* _analyze_canonical
analyze_canonical(soup) ==
    IF soup.canonical THEN <<>> ELSE <<SEOIssue("missing_canonical", "info")>>

\* _analyze_og_tags
analyze_og_tags(soup) ==
    IF {"og:title", "og:description", "og:image"} \subseteq soup.og THEN <<>>
    ELSE <<SEOIssue("missing_og_tags", "info")>>

\* the types _analyze_structured_data finds in the soup it is handed
structured_data_types(soup) ==
    (IF soup.json_ld THEN {"Article"} ELSE {})
    \cup (IF soup.microdata THEN {"Product"} ELSE {})

\* _analyze_structured_data
analyze_structured_data(soup) ==
    IF structured_data_types(soup) = {} THEN <<SEOIssue("no_structured_data", "info")>>
    ELSE <<>>

\* _analyze_robots_meta
analyze_robots_meta(soup) ==
    IF soup.noindex THEN <<SEOIssue("robots_noindex", "critical")>> ELSE <<>>

\* _analyze_links
analyze_links(soup) ==
    IF soup.internal_links < 2 THEN <<SEOIssue("low_internal_links", "info")>> ELSE <<>>

\* _analyze_security_headers
analyze_security_headers(soup, has_ssl) ==
    IF ~soup.security_headers /\ has_ssl
    THEN <<SEOIssue("missing_security_headers", "info")>> ELSE <<>>

\* _analyze_favicon
analyze_favicon(soup) ==
    IF soup.favicon THEN <<>> ELSE <<SEOIssue("missing_favicon", "info")>>

\* the deductions of _calculate_score
RECURSIVE Deductions(_)
Deductions(issues) ==
    IF issues = <<>> THEN 0
    ELSE (IF Head(issues).severity = "critical" THEN 15
          ELSE IF Head(issues).severity = "warning" THEN 8
          ELSE IF Head(issues).severity = "info" THEN 2 ELSE 0)
         + Deductions(Tail(issues))

\* _calculate_score before the clamp
raw_score(result) ==
    100 - Deductions(result.issues)
    + (IF result.title # NoText /\ result.title # 0
          /\ 50 <= result.title /\ result.title <= 60 THEN 3 ELSE 0)
    + (IF result.meta_description # NoText /\ result.meta_description # 0
          /\ 120 <= result.meta_description /\ result.meta_description <= 160
       THEN 3 ELSE 0)
    + (IF result.word_count >= 500 THEN 3 ELSE 0)
    + (IF result.h2_tags THEN 2 ELSE 0)
    + (IF result.structured_data_types # {} THEN 3 ELSE 0)
    + (IF {"og:title", "og:description"} \subseteq result.og_tags THEN 2 ELSE 0)
    + (IF result.canonical_url THEN 2 ELSE 0)

\* _calculate_score
calculate_score(result) == Max2(0, Min2(100, raw_score(result)))

\* SEOAnalysisResult(url) as its constructor leaves it, with has_ssl and the
\* no_ssl issue of analyze()
NewResult(has_ssl) ==
    [has_ssl |-> has_ssl, title |-> NoText, meta_description |-> NoText, h1_tags |-> <<>>,
     h2_tags |-> FALSE, h3_tags |-> FALSE, word_count |-> 0, mobile_friendly |-> FALSE,
     canonical_url |-> FALSE, og_tags |-> {}, structured_data_types |-> {},
     issues |-> IF has_ssl THEN <<>> ELSE <<SEOIssue("no_ssl", "critical")>>,
     seo_score |-> 0]

\* analyze(html, url, status_code, headers)
analyze(page) ==
    LET start == NewResult(page.https)
    IN  IF ~page.parses
        THEN [start EXCEPT !.issues = @ \o <<SEOIssue("parse_error", "critical")>>]
        ELSE LET soup == decompose_scripts(page)
                 filled ==
                    [start EXCEPT
                       !.title = page.title,
                       !.meta_description = page.meta_description,
                       !.h1_tags = page.h1,
                       !.h2_tags = page.h2,
                       !.h3_tags = page.h3,
                       !.word_count = page.word_count,
                       !.mobile_friendly = soup.viewport,
                       !.canonical_url = soup.canonical,
                       !.og_tags = soup.og,
                       !.structured_data_types = structured_data_types(soup),
                       !.issues = @ \o analyze_title(page)
                                    \o analyze_meta_description(page)
                                    \o analyze_headings(page)
                                    \o analyze_content(page)
                                    \o analyze_mobile(soup)
                                    \o analyze_images(soup)
                                    \o analyze_canonical(soup)
                                    \o analyze_og_tags(soup)
                                    \o analyze_structured_data(soup)
                                    \o analyze_robots_meta(soup)
                                    \o analyze_links(soup)
                                    \o analyze_security_headers(soup, page.https)
                                    \o analyze_favicon(soup)]
             IN  [filled EXCEPT !.seo_score = calculate_score(filled)]

\* the PageResult row stored for an analysis: the fields of the analysis with
\* the id of the row and the url and status of the crawl result
PageResult(id, crawl_result, analysis) ==
    [id |-> id, url |-> crawl_result.url, status_code |-> crawl_result.status_code]
    @@ analysis

\* the page_data dictionary the recommendation endpoints build from a stored
\* PageResult row
page_data(row) ==
    [id |-> row.id, title |-> row.title, meta_description |-> row.meta_description,
     h1_tags |-> row.h1_tags, word_count |-> row.word_count, issues |-> row.issues,
     seo_score |-> row.seo_score]

SEORecommendation(title, priority, recommendation_type) ==
    [title |-> title, priority |-> priority, recommendation_type |-> recommendation_type,
     page_specific |-> TRUE]

\* an issue of the given type is in page["issues"]
HasIssue(page, type) == \E i \in 1..Len(page.issues) : page.issues[i].type = type

\* _check_title
check_title(page) ==
    IF page.title = NoText \/ page.title = 0
    THEN <<SEORecommendation("Missing Title Tag", "high", "on_page")>>
    ELSE IF page.title < 30
    THEN <<SEORecommendation("Title Too Short", "medium", "on_page")>>
    ELSE IF page.title > 60
    THEN <<SEORecommendation("Title Too Long", "medium", "on_page")>>
    ELSE <<>>

\* _check_meta_description
check_meta_description(page) ==
    IF page.meta_description = NoText \/ page.meta_description = 0
    THEN <<SEORecommendation("Missing Meta Description", "high", "on_page")>>
    ELSE IF page.meta_description < 120
    THEN <<SEORecommendation("Meta Description Too Short", "medium", "on_page")>>
    ELSE IF page.meta_description > 160
    THEN <<SEORecommendation("Meta Description Too Long", "low", "on_page")>>
    ELSE <<>>

\* _check_headings
check_headingsMutant(page) ==
    (IF page.h1_tags = <<>>
     THEN <<SEORecommendation("Missing H1 Tag", "high", "on_page")>>
     ELSE IF Len(page.h1_tags) > 1
     THEN <<SEORecommendation("Multiple H1 Tags", "medium", "on_page")>>
     ELSE <<>>)
    \o (IF page.h1_tags # <<>> /\ page.h1_tags[1] < 20
        THEN <<SEORecommendation("H1 Too Short", "medium", "on_page")>> ELSE <<>>)
    \o (IF HasIssue(page, "heading_hierarchy")
        THEN <<SEORecommendation("Improper Heading Hierarchy", "low", "on_page")>>
        ELSE <<>>)

check_headings(page) ==
    (IF page.h1_tags = <<>>
     THEN <<SEORecommendation("Missing H1 Tag", "high", "on_page")>>
     ELSE IF Len(page.h1_tags) > 1
     THEN <<SEORecommendation("Multiple H1 Tags", "medium", "on_page")>>
     ELSE <<>>)
    \o (IF page.h1_tags # <<>> /\ page.h1_tags[1] < 20
        THEN <<SEORecommendation("H1 Too Short", "low", "on_page")>> ELSE <<>>)
    \o (IF HasIssue(page, "heading_hierarchy")
        THEN <<SEORecommendation("Improper Heading Hierarchy", "low", "on_page")>>
        ELSE <<>>)

\* _check_content
check_contentMutant(page) ==
    IF page.word_count = 0
    THEN <<SEORecommendation("No Text Content", "high", "content_quality")>>
    ELSE IF page.word_count < 300
    THEN <<SEORecommendation("Thin Content", "low", "content_quality")>>
    ELSE IF page.word_count < 500
    THEN <<SEORecommendation("Could Use More Content", "low", "content_quality")>>
    ELSE <<>>

check_content(page) ==
    IF page.word_count = 0
    THEN <<SEORecommendation("No Text Content", "high", "content_quality")>>
    ELSE IF page.word_count < 300
    THEN <<SEORecommendation("Thin Content", "medium", "content_quality")>>
    ELSE IF page.word_count < 500
    THEN <<SEORecommendation("Could Use More Content", "low", "content_quality")>>
    ELSE <<>>

\* _check_technical_seo; page.get(key) of a key page_data does not carry is
\* the default
check_technical_seo(page) ==
    (IF ~(IF "has_ssl" \in DOMAIN page THEN page.has_ssl ELSE FALSE)
     THEN <<SEORecommendation("Not Using HTTPS", "high", "technical_seo")>> ELSE <<>>)
    \o (IF "mobile_friendly" \in DOMAIN page /\ ~page.mobile_friendly
        THEN <<SEORecommendation("Not Mobile-Friendly", "high", "technical_seo")>>
        ELSE <<>>)
    \o (IF ~(IF "canonical_url" \in DOMAIN page THEN page.canonical_url ELSE FALSE)
        THEN <<SEORecommendation("Missing Canonical Tag", "medium", "technical_seo")>>
        ELSE <<>>)
    \o (IF "status_code" \in DOMAIN page /\ page.status_code >= 400
        THEN <<SEORecommendation("HTTP Error", "high", "technical_seo")>>
        ELSE IF "status_code" \in DOMAIN page /\ page.status_code >= 300
        THEN <<SEORecommendation("Redirect Chain Detected", "low", "technical_seo")>>
        ELSE <<>>)
    \o (IF HasIssue(page, "robots_noindex")
        THEN <<SEORecommendation("Page Blocked from Indexing", "high", "technical_seo")>>
        ELSE <<>>)

\* _check_performance
check_performance(page) ==
    LET load_time == IF "load_time_ms" \in DOMAIN page THEN page.load_time_ms ELSE 0
    IN  IF load_time > 3000
        THEN <<SEORecommendation("Slow Page Load Time", "high", "performance")>>
        ELSE IF load_time > 2000
        THEN <<SEORecommendation("Page Load Could Be Faster", "medium", "performance")>>
        ELSE <<>>

\* _check_images
check_images(page) ==
    IF HasIssue(page, "missing_alt_text")
    THEN <<SEORecommendation("Images Missing Alt Text", "medium", "on_page")>> ELSE <<>>

\* _check_structured_data
check_structured_data(page) ==
    IF HasIssue(page, "no_structured_data")
    THEN <<SEORecommendation("Add Structured Data Markup", "medium", "technical_seo")>>
    ELSE <<>>

\* _check_social_tags
check_social_tags(page) ==
    IF HasIssue(page, "missing_og_tags")
    THEN <<SEORecommendation("Incomplete Open Graph Tags", "low", "on_page")>> ELSE <<>>

\* _check_links
check_links(page) ==
    IF HasIssue(page, "low_internal_links")
    THEN <<SEORecommendation("Improve Internal Linking", "low", "on_page")>> ELSE <<>>

\* analyze_page(page_data)
analyze_page(page) ==
    check_title(page) \o check_meta_description(page) \o check_headings(page)
    \o check_content(page) \o check_technical_seo(page) \o check_performance(page)
    \o check_images(page) \o check_structured_data(page) \o check_social_tags(page)
    \o check_links(page)

\* _recommendation_to_dict(rec, page_id); NoPage stands for None
NoPage == ""

recommendation_to_dict(rec, page_id) ==
    [page_result_id |-> IF rec.page_specific THEN page_id ELSE NoPage,
     recommendation_type |-> rec.recommendation_type, title |-> rec.title,
     priority |-> rec.priority]

\* generate_page_recommendations(page_data, use_ai_analysis=False)
generate_page_recommendations(page) ==
    LET rule_recs == analyze_page(page)
    IN  [i \in 1..Len(rule_recs) |-> recommendation_to_dict(rule_recs[i], page.id)]

PageInit ==
    /\ fn_pc = "page"
    /\ fn_arg \in Pages
    /\ fn_val = <<>>
    /\ IdleCrawler
    /\ IdleJob
    /\ IdleDb

\* analyzer.analyze(html, url, status_code, headers)
Analyze ==
    /\ fn_pc = "page"
    /\ fn_val' = analyze(fn_arg)
    /\ fn_pc' = "analyzed"
    /\ UNCHANGED <<fn_arg, crawlVars, jobVars, dbVars>>

\* the recommendations for the stored row of the analysis: page_data built
\* from the row, then generate_page_recommendations
RecommendPage ==
    /\ fn_pc = "analyzed"
    /\ LET crawl_result == [url |-> U(IF fn_arg.https THEN "https" ELSE "http",
                                      "example.com", <<"/">>),
                            status_code |-> 200]
           row == PageResult("page-1", crawl_result, fn_val)
       IN  /\ fn_arg' = page_data(row)
           /\ fn_val' = generate_page_recommendations(page_data(row))
    /\ fn_pc' = "recommended"
    /\ UNCHANGED <<crawlVars, jobVars, dbVars>>

NextPage == Analyze \/ RecommendPage

SpecPage == PageInit /\ [][NextPage]_vars

\* ------------------------------------- the stored crawl and its recommendations
\* CrawlerResults a crawl of example.com can return: the homepage and a page
\* over http, both linking to /b, /b answering 404, and /a whose request failed
StoreResults ==
    { [url |-> U("https", "example.com", <<>>), status_code |-> 200, html |-> TRUE,
       error |-> FALSE, outgoing_links |-> <<PgB("example.com")>>],
      [url |-> PgHttpA("example.com"), status_code |-> 200, html |-> TRUE,
       error |-> FALSE, outgoing_links |-> <<PgB("example.com")>>],
      [url |-> PgB("example.com"), status_code |-> 404, html |-> TRUE,
       error |-> FALSE, outgoing_links |-> <<>>],
      [url |-> PgA("example.com"), status_code |-> 0, html |-> FALSE,
       error |-> TRUE, outgoing_links |-> <<>>] }

\* the result lists of up to n results, no result twice
RECURSIVE ResultLists(_)
ResultLists(n) ==
    IF n = 0 THEN {<<>>}
    ELSE LET shorter == ResultLists(n - 1)
             longer == {Append(q, r) : q \in {x \in shorter : Len(x) = n - 1},
                                       r \in StoreResults}
         IN  shorter \cup {q \in longer : q[n] \notin Range(Front(q))}

\* what the html of a fetched page may hold: a page in good order, a thin
\* page without title, description, H1 and viewport, and markup the parser
\* rejects
StorePages ==
    { [https |-> TRUE, parses |-> TRUE, title |-> 55, meta_description |-> 140,
       h1 |-> <<25>>, h2 |-> TRUE, h3 |-> FALSE, word_count |-> 600, viewport |-> TRUE,
       canonical |-> TRUE, og |-> {"og:title", "og:description", "og:image"},
       json_ld |-> FALSE, microdata |-> TRUE, noindex |-> FALSE,
       images_without_alt |-> 0, internal_links |-> 3, security_headers |-> TRUE,
       favicon |-> TRUE],
      [https |-> TRUE, parses |-> TRUE, title |-> NoText, meta_description |-> NoText,
       h1 |-> <<>>, h2 |-> FALSE, h3 |-> FALSE, word_count |-> 100, viewport |-> FALSE,
       canonical |-> FALSE, og |-> {}, json_ld |-> FALSE, microdata |-> FALSE,
       noindex |-> FALSE, images_without_alt |-> 1, internal_links |-> 0,
       security_headers |-> FALSE, favicon |-> FALSE],
      [https |-> TRUE, parses |-> FALSE, title |-> NoText, meta_description |-> NoText,
       h1 |-> <<>>, h2 |-> FALSE, h3 |-> FALSE, word_count |-> 0, viewport |-> FALSE,
       canonical |-> FALSE, og |-> {}, json_ld |-> FALSE, microdata |-> FALSE,
       noindex |-> FALSE, images_without_alt |-> 0, internal_links |-> 0,
       security_headers |-> TRUE, favicon |-> FALSE] }

\* `for crawl_result in crawl_results`: results with an error are skipped,
\* every other one is analyzed and its PageResult row added. The arguments are
\* analyzer.analyze(crawl_result.html, crawl_result.url, ...): html == "" for
\* a 200 answer that is not text/html; the Celery task hands over
\* crawl_result.headers, run_crawl_job no headers
RECURSIVE AnalyzedRows(_, _, _)
AnalyzedRows(n, contents, with_headers) ==
    IF n = 0 THEN <<>>
    ELSE LET before == AnalyzedRows(n - 1, contents, with_headers)
             EmptyPage ==
                 [https |-> TRUE, parses |-> TRUE, title |-> NoText,
                  meta_description |-> NoText, h1 |-> <<>>, h2 |-> FALSE, h3 |-> FALSE,
                  word_count |-> 0, viewport |-> FALSE, canonical |-> FALSE, og |-> {},
                  json_ld |-> FALSE, microdata |-> FALSE, noindex |-> FALSE,
                  images_without_alt |-> 0, internal_links |-> 0,
                  security_headers |-> TRUE, favicon |-> FALSE]
             AnalyzeArgs(crawl_result) ==
                 [(IF crawl_result.html THEN contents[n] ELSE EmptyPage) EXCEPT
                     !.https = (crawl_result.url.scheme = "https"),
                     !.security_headers = (@ /\ with_headers)]
             PageId(i) == <<"page-1", "page-2", "page-3", "page-4">>[i]
         IN  IF results[n].error THEN before
             ELSE Append(before,
                         PageResult(PageId(Len(before) + 1), results[n],
                                    analyze(AnalyzeArgs(results[n]))))

\* the outgoing links of a result whose own result has a 4xx or 5xx status;
\* status_map.get(link) is the status of the last result with that url, None
\* (here 0) without one
broken_links(crawl_result) ==
    LET link_status(link) ==
            LET at == {i \in 1..Len(results) : results[i].url = link}
            IN  IF at = {} THEN 0
                ELSE results[CHOOSE i \in at : \A j \in at : j <= i].status_code
        Broken(link) == link_status(link) # 0 /\ 400 <= link_status(link)
                        /\ link_status(link) < 600
    IN  SelectSeq(crawl_result.outgoing_links, Broken)

\* `for i, crawl_result in enumerate(crawl_results)` of run_crawl_job from
\* index i on: page_results[i] is the row at the index of the crawl result,
\* an IndexError when there is none; a row with broken links gets the
\* broken_links issue appended and its score lowered by 5 unless it is 0
RECURSIVE DetectBrokenLinks(_, _)
DetectBrokenLinks(i, acc) ==
    LET WithBrokenLinks(row) ==
            [row EXCEPT !.issues = Append(@, SEOIssue("broken_links", "critical")),
                        !.seo_score = IF @ # 0 THEN Max2(0, @ - 5) ELSE @]
    IN  IF acc.raised \/ i > Len(results) THEN acc
        ELSE IF results[i].error \/ results[i].outgoing_links = <<>>
        THEN DetectBrokenLinks(i + 1, acc)
        ELSE IF i > Len(acc.rows) THEN [acc EXCEPT !.raised = TRUE]
        ELSE IF broken_links(results[i]) = <<>> THEN DetectBrokenLinks(i + 1, acc)
        ELSE DetectBrokenLinks(i + 1, [acc EXCEPT !.rows[i] = WithBrokenLinks(@)])

\* RuleBasedRecommendationEngine.generate_overall_recommendations(pages, ...)
rule_engine_overall_recommendations(pages) ==
    LET n == Len(pages)
        \* SEORecommendation(..., page_specific=False)
        SiteRecommendation(title, priority, recommendation_type) ==
            [title |-> title, priority |-> priority,
             recommendation_type |-> recommendation_type, page_specific |-> FALSE]
        \* p.get(key, default)
        Get(p, key, default) == IF key \in DOMAIN p THEN p[key] ELSE default
        RECURSIVE SumLoadTimes(_)
        SumLoadTimes(ps) ==
            IF ps = <<>> THEN 0
            ELSE Get(Head(ps), "load_time_ms", 0) + SumLoadTimes(Tail(ps))
        Count(Test(_)) == Cardinality({i \in 1..n : Test(pages[i])})
        Timed(p) == Get(p, "load_time_ms", 0) # 0
        Https(p) == Get(p, "has_ssl", FALSE)
        Mobile(p) == Get(p, "mobile_friendly", FALSE)
        Thin(p) == Get(p, "word_count", 0) < 300
        NoMeta(p) == Get(p, "meta_description", NoText) \in {NoText, 0}
        Schema(p) == Get(p, "schema_markup", {}) # {}
        NoCanonical(p) == ~Get(p, "canonical_url", FALSE)
    IN  IF pages = <<>> THEN <<>>
        ELSE (IF Count(Timed) > 0 /\ SumLoadTimes(pages) > 2000 * Count(Timed)
              THEN <<SiteRecommendation("Site-Wide Performance Issue", "high", "performance")>>
              ELSE <<>>)
          \o (IF Count(Https) < n
              THEN <<SiteRecommendation("Incomplete HTTPS Migration", "high", "technical_seo")>>
              ELSE <<>>)
          \o (IF 10 * Count(Mobile) < 9 * n
              THEN <<SiteRecommendation("Mobile-Friendliness Issues", "high", "technical_seo")>>
              ELSE <<>>)
          \o (IF 10 * Count(Thin) > 3 * n
              THEN <<SiteRecommendation("Site-Wide Thin Content", "medium", "content_quality")>>
              ELSE <<>>)
          \o (IF 10 * Count(NoMeta) > 2 * n
              THEN <<SiteRecommendation("Many Pages Missing Meta Descriptions", "medium",
                                        "on_page")>>
              ELSE <<>>)
          \o (IF 10 * Count(Schema) < 3 * n
              THEN <<SiteRecommendation("Low Structured Data Adoption", "medium",
                                        "technical_seo")>>
              ELSE <<>>)
          \o (IF 10 * Count(NoCanonical) > 5 * n
              THEN <<SiteRecommendation("Missing Canonical Tags Site-Wide", "medium",
                                        "technical_seo")>>
              ELSE <<>>)

\* AIService.generate_overall_recommendations(pages, crawl_stats, False)
generate_overall_recommendations(pages) ==
    LET rule_recs == rule_engine_overall_recommendations(pages)
    IN  [i \in 1..Len(rule_recs) |-> recommendation_to_dict(rule_recs[i], NoPage)]

\* the AIRecommendation rows run_crawl_job and generate_recommendations add
\* for the PageResult rows of a crawl: those of each page in turn, then the
\* site-wide ones, each as
\* AIRecommendation(crawl_job_id=..., ..., implementation_status="pending")
RecommendationRows(pages) ==
    LET AIRecommendation(rec_data) ==
            [page_result_id |-> rec_data.page_result_id,
             recommendation_type |-> rec_data.recommendation_type,
             title |-> rec_data.title, priority |-> rec_data.priority,
             implementation_status |-> "pending"]
        RECURSIVE PageRecommendations(_)
        PageRecommendations(ps) ==
            IF ps = <<>> THEN <<>>
            ELSE generate_page_recommendations(page_data(Head(ps)))
                 \o PageRecommendations(Tail(ps))
        pages_data == [i \in 1..Len(pages) |-> page_data(pages[i])]
        all_recommendations == PageRecommendations(pages)
                               \o generate_overall_recommendations(pages_data)
    IN  [i \in 1..Len(all_recommendations) |-> AIRecommendation(all_recommendations[i])]

\* a crawl of example.com has returned its results to the pipeline that runs
\* the job; the job row is running and nothing of the crawl is stored yet
StoreInit ==
    /\ results \in ResultLists(MaxResults)
    /\ pc = "done"
    /\ domain = "example.com"
    /\ dns = NoAnswer
    /\ max_pages = MaxResults
    /\ robots_parsers = <<>>
    /\ visited_urls = {}
    /\ to_crawl = <<>>
    /\ last_request_time = 0
    /\ effective_delay = NoDelay
    /\ sitemap_locations = <<>>
    /\ sm_idx = 0
    /\ urls = <<>>
    /\ now = StartTime
    /\ httpLog = <<>>
    /\ IdleJob
    /\ IdleFn
    /\ crawl_jobs = <<"running">>
    /\ page_results = <<>>
    /\ ai_recommendations = <<>>
    /\ user_plan = "free"
    /\ run_pc = "crawled"
    /\ api_pc = [r \in Requests |-> "idle"]

\* _process_crawl_job_async from the analysis loop to the final update, no
\* cancellation requested: the rows are stored and the job is completed; the
\* task stores no recommendation
TaskStoreRows ==
    /\ run_pc = "crawled"
    /\ \E contents \in [1..Len(results) -> StorePages] :
          page_results' = AnalyzedRows(Len(results), contents, TRUE)
    /\ crawl_jobs' = <<"completed">>
    /\ run_pc' = "finished"
    /\ UNCHANGED <<ai_recommendations, user_plan, api_pc>>
    /\ UNCHANGED <<crawlVars, jobVars, fnVars>>

\* run_crawl_job, the analysis loop and its commit
RunStoreRows ==
    /\ run_pc = "crawled"
    /\ \E contents \in [1..Len(results) -> StorePages] :
          page_results' = AnalyzedRows(Len(results), contents, FALSE)
    /\ run_pc' = "rows"
    /\ UNCHANGED <<crawl_jobs, ai_recommendations, user_plan, api_pc>>
    /\ UNCHANGED <<crawlVars, jobVars, fnVars>>

\* run_crawl_job, broken-link detection and its commit; the IndexError leaves
\* through `except Exception`, whose commit marks the job failed
RunBrokenLinks ==
    /\ run_pc = "rows"
    /\ LET out == DetectBrokenLinks(1, [rows |-> page_results, raised |-> FALSE])
       IN  /\ page_results' = out.rows
           /\ crawl_jobs' = IF out.raised THEN <<"failed">> ELSE crawl_jobs
           /\ run_pc' = IF out.raised THEN "finished" ELSE "links"
    /\ UNCHANGED <<ai_recommendations, user_plan, api_pc>>
    /\ UNCHANGED <<crawlVars, jobVars, fnVars>>

\* run_crawl_job, the recommendations and the completed status, one commit
RunRecommend ==
    /\ run_pc = "links"
    /\ ai_recommendations' = ai_recommendations \o RecommendationRows(page_results)
    /\ crawl_jobs' = <<"completed">>
    /\ run_pc' = "finished"
    /\ UNCHANGED <<page_results, user_plan, api_pc>>
    /\ UNCHANGED <<crawlVars, jobVars, fnVars>>

\* POST /crawls/{crawl_id}/recommendations up to the query for the pages: 400
\* unless the crawl is completed, has no recommendation yet and has pages
GenerateCheck(r) ==
    /\ api_pc[r] = "idle"
    /\ api_pc' = [api_pc EXCEPT ![r] =
                     IF crawl_jobs[1] # "completed" \/ ai_recommendations # <<>>
                        \/ page_results = <<>>
                     THEN "rejected" ELSE "generating"]
    /\ UNCHANGED <<crawl_jobs, page_results, ai_recommendations, user_plan, run_pc>>
    /\ UNCHANGED <<crawlVars, jobVars, fnVars>>

\* the rest of the request: the recommendations of the pages it read are
\* added and committed (the rows of a completed crawl do not change)
GenerateCommit(r) ==
    /\ api_pc[r] = "generating"
    /\ ai_recommendations' = ai_recommendations \o RecommendationRows(page_results)
    /\ api_pc' = [api_pc EXCEPT ![r] = "created"]
    /\ UNCHANGED <<crawl_jobs, page_results, user_plan, run_pc>>
    /\ UNCHANGED <<crawlVars, jobVars, fnVars>>

NextStore ==
    \/ TaskStoreRows \/ RunStoreRows \/ RunBrokenLinks \/ RunRecommend
    \/ \E r \in Requests : GenerateCheck(r) \/ GenerateCommit(r)

SpecStore == StoreInit /\ [][NextStore]_vars

\* ------------------------------------------------------- starting a crawl job

\* settings.*_MAX_SCANS_PER_MONTH
FREE_MAX_SCANS_PER_MONTH == 1
PRO_MAX_SCANS_PER_MONTH == 4
AGENCY_MAX_SCANS_PER_MONTH == 30

\* _get_plan_limits(plan)["scans"]; an unknown plan gets the limits of "free"
get_plan_limits(plan) ==
    CASE plan = "free" -> [scans |-> FREE_MAX_SCANS_PER_MONTH]
      [] plan = "pro" -> [scans |-> PRO_MAX_SCANS_PER_MONTH]
      [] plan = "agency" -> [scans |-> AGENCY_MAX_SCANS_PER_MONTH]
      [] OTHER -> [scans |-> FREE_MAX_SCANS_PER_MONTH]

\* select(CrawlJob).where(website_id == ..., status.in_(["pending", "running"]))
ActiveCrawls == {j \in DOMAIN crawl_jobs : crawl_jobs[j] \in {"pending", "running"}}

\* one website of one user with the jobs it had before the requests arrive
StartInit ==
    /\ IdleCrawler
    /\ IdleJob
    /\ IdleFn
    /\ crawl_jobs \in {<<>>, <<"completed">>, <<"failed">>, <<"running">>, <<"pending">>}
    /\ page_results = <<>>
    /\ ai_recommendations = <<>>
    /\ user_plan \in {"free", "pro", "agency"}
    /\ run_pc = "idle"
    /\ api_pc = [r \in Requests |-> "idle"]

\* start_crawl up to the first check: scalar_one_or_none() over the pending
\* and running jobs of the website raises MultipleResultsFound for two or
\* more rows (500), one row is answered 400
StartCrawlCheck(r) ==
    /\ api_pc[r] = "idle"
    /\ api_pc' = [api_pc EXCEPT ![r] =
                     IF Cardinality(ActiveCrawls) > 1 THEN "error"
                     ELSE IF ActiveCrawls # {} THEN "bad_request"
                     ELSE "checked"]
    /\ UNCHANGED <<crawl_jobs, page_results, ai_recommendations, user_plan, run_pc>>
    /\ UNCHANGED <<crawlVars, jobVars, fnVars>>

\* start_crawl, the plan limit: the count of this month's scans is read in a
\* second query (select(func.count(CrawlJob.id)) ... created_at >=
\* first_of_month; every job of the model was created in the current month)
\* and compared with limits["scans"] (403 when reached)
StartCrawlLimit(r) ==
    /\ api_pc[r] = "checked"
    /\ LET scans_this_month == Len(crawl_jobs)
       IN  api_pc' = [api_pc EXCEPT ![r] =
                         IF scans_this_month >= get_plan_limits(user_plan).scans
                         THEN "forbidden" ELSE "allowed"]
    /\ UNCHANGED <<crawl_jobs, page_results, ai_recommendations, user_plan, run_pc>>
    /\ UNCHANGED <<crawlVars, jobVars, fnVars>>

\* start_crawl, the rest: CrawlJob(status="pending") is added and committed,
\* process_crawl_job.delay(...) queues the task, the job is returned (201)
StartCrawlCreate(r) ==
    /\ api_pc[r] = "allowed"
    /\ crawl_jobs' = Append(crawl_jobs, "pending")
    /\ api_pc' = [api_pc EXCEPT ![r] = "created"]
    /\ UNCHANGED <<page_results, ai_recommendations, user_plan, run_pc>>
    /\ UNCHANGED <<crawlVars, jobVars, fnVars>>

\* _process_crawl_job_async, its first commit: a queued job becomes running,
\* or cancelled when cancellation was requested before a worker took it
ProcessCrawlJobStart(j) ==
    /\ j \in DOMAIN crawl_jobs
    /\ crawl_jobs[j] = "pending"
    /\ \E requested \in BOOLEAN :
           crawl_jobs' = [crawl_jobs EXCEPT ![j] =
                             IF requested THEN "cancelled" ELSE "running"]
    /\ UNCHANGED <<page_results, ai_recommendations, user_plan, run_pc, api_pc>>
    /\ UNCHANGED <<crawlVars, jobVars, fnVars>>

\* _process_crawl_job_async, its last commit: the running job ends completed,
\* cancelled (requested between two pages) or failed (an exception)
ProcessCrawlJobEnd(j) ==
    /\ j \in DOMAIN crawl_jobs
    /\ crawl_jobs[j] = "running"
    /\ \E status \in {"completed", "cancelled", "failed"} :
           crawl_jobs' = [crawl_jobs EXCEPT ![j] = status]
    /\ UNCHANGED <<page_results, ai_recommendations, user_plan, run_pc, api_pc>>
    /\ UNCHANGED <<crawlVars, jobVars, fnVars>>

NextStart ==
    \/ \E r \in Requests : StartCrawlCheck(r)
    \/ \E r \in Requests : StartCrawlLimit(r)
    \/ \E r \in Requests : StartCrawlCreate(r)
    \/ \E j \in DOMAIN crawl_jobs : ProcessCrawlJobStart(j)
    \/ \E j \in DOMAIN crawl_jobs : ProcessCrawlJobEnd(j)

SpecStart == StartInit /\ [][NextStart]_vars

\* ------------------------------------------------------------------ claims
PageRequests == {i \in 1..Len(httpLog) : httpLog[i].kind = "page"}

RobotsRequests == {i \in 1..Len(httpLog) : httpLog[i].kind \in {"sitemap_robots", "robots"}}

\* C1: with max_pages = N the visited set never holds more than N URLs and
\* the run hands at most N URLs to the page fetcher, failed fetches included
C1_VisitedAndFetchesWithinMaxPages ==
    /\ Cardinality(visited_urls) <= max_pages
    /\ Cardinality(PageRequests) <= max_pages
    /\ Len(results) <= max_pages

\* the page cap ended a run of two fetches, one of them failed, with URLs
\* still queued
C1_Witness ==
    /\ pc = "done"
    /\ max_pages = 2
    /\ Cardinality(visited_urls) = 2
    /\ Cardinality(PageRequests) = 2
    /\ to_crawl # <<>>
    /\ \E i \in 1..Len(results) : results[i].error

\* C2: no URL is handed to the page fetcher twice in one run, and every URL
\* handed to it is in the visited set from then on
C2_NoUrlFetchedTwice ==
    /\ \A i \in PageRequests : \A j \in PageRequests :
          i # j => httpLog[i].url # httpLog[j].url
    /\ \A i \in PageRequests : pc = "loop" \/ pc = "done" => httpLog[i].url \in visited_urls

\* a page fetched second links back to the homepage that was fetched first,
\* and a sitemap had seeded URLs
C2_Witness ==
    /\ pc = "done"
    /\ urls # <<>>
    /\ Len(results) >= 2
    /\ normalize_url(start_url) \in visited_urls
    /\ normalize_url(start_url) \in Range(results[2].outgoing_links)

\* addresses of the model inside the blocked ranges
C3_BlockedAddrs ==
    { <<127, 0, 0, 1>>, <<172, 20, 1, 1>>,
      <<0, 0, 0, 0, 0, 0, 0, 0, 0, 0, 0, 0, 0, 0, 0, 1>> }

\* C3: a target that is a blocked literal IP, resolves to some blocked
\* address or does not resolve is rejected by the constructor, and the run
\* sends no HTTP request
C3_UnsafeTargetSendsNothing ==
    (domain = "10.0.0.5" \/ dns.gaierror \/ dns.addrs \cap C3_BlockedAddrs # {})
       => (pc \in {"init", "rejected"} /\ httpLog = <<>>)

\* the constructor rejected a host name that resolves only to 127.0.0.1
C3_Witness ==
    /\ pc = "rejected"
    /\ domain = "example.com"
    /\ dns.addrs = {<<127, 0, 0, 1>>}
    /\ httpLog = <<>>

\* C4: every host a request of the run goes to has passed the SSRF guard
C4_EveryContactedHostGuarded ==
    \A i \in 1..Len(httpLog) : httpLog[i].url.host \in GuardedHosts

\* the first rule line of the cached robots.txt of u's origin that matches
\* u is a Disallow line
C5_Denied(u) ==
    /\ get_base_url(u) \in DOMAIN robots_parsers
    /\ LET rules == robots_parsers[get_base_url(u)].rules
           p == IF u.path = <<>> THEN <<"/">> ELSE u.path
       IN  \E i \in 1..Len(rules) :
              /\ IsPrefix(rules[i].path, p)
              /\ ~rules[i].allow
              /\ \A j \in 1..(i - 1) : ~IsPrefix(rules[j].path, p)

\* C5: a URL that robots.txt denies is never handed to the page fetcher and
\* never marked visited, however often it is enqueued
C5_DeniedNeverFetched ==
    /\ \A i \in PageRequests : ~C5_Denied(httpLog[i].url)
    /\ \A u \in visited_urls : ~C5_Denied(u)

\* /b, denied, was seeded by the sitemap and skipped, was found again on a
\* fetched page and enqueued again, and was skipped again
C5_Witness ==
    /\ pc = "done"
    /\ C5_Denied(PgB(domain))
    /\ PgB(domain) \in Range(urls)
    /\ \E j \in 1..Len(results) : PgB(domain) \in Range(results[j].outgoing_links)
    /\ Len(results) = 1
    /\ to_crawl = <<>>
    /\ PgB(domain) \notin visited_urls

\* C6: the robots.txt of an origin is requested at most once in a run
C6_RobotsRequestedOncePerOrigin ==
    \A i \in RobotsRequests : \A j \in RobotsRequests :
       i # j => httpLog[i].url # httpLog[j].url

\* the URLs of an origin the model knows
C7_UrlsOf(base) ==
    {U(base.scheme, base.host, p) :
        p \in {<<>>, <<"/">>, <<"/", "a">>, <<"/", "a", "/">>, <<"/", "b">>, <<"/", "admin">>}}

\* C7: once the robots.txt request of the politeness cache for an origin
\* got a non-200 status or failed, can_fetch is true for every URL of that
\* origin
C7_MissingRobotsAllowsAll ==
    \A i \in 1..Len(httpLog) :
       (httpLog[i].kind = "robots" /\ httpLog[i].status # 200)
          => LET base == get_base_url(httpLog[i].url)
             IN  /\ base \in DOMAIN robots_parsers
                 /\ \A u \in C7_UrlsOf(base) : RuleAllows(robots_parsers[base], u)

\* robots.txt of the target answered 404 and /b, which a robots.txt of the
\* model would deny, was fetched
C7_Witness ==
    /\ pc = "done"
    /\ \E i \in 1..Len(httpLog) :
          httpLog[i].kind = "robots" /\ httpLog[i].status = 404
          /\ httpLog[i].url.scheme = "https"
    /\ PgB(domain) \in visited_urls

\* C8: consecutive requests of a run are at least the rate limiter's delay
\* apart
C8_RequestsSpacedByDelay ==
    \A i \in 2..Len(httpLog) : httpLog[i].t - httpLog[i - 1].t >= RateDelay

\* the edges of pending -> running -> {completed, failed, cancelled}
C9_Edges ==
    { <<"pending", "running">>, <<"running", "completed">>,
      <<"running", "failed">>, <<"running", "cancelled">> }

\* C9: every change of the job status follows an edge of the state machine
C9_StatusFollowsStateMachine ==
    [][(job_status' # job_status) => (<<job_status, job_status'>> \in C9_Edges)]_vars

\* C10: a job status of completed, failed or cancelled never changes again
C10_TerminalStatusIsFinal ==
    [][(job_status \in {"completed", "failed", "cancelled"}) => (job_status' = job_status)]_vars

\* C11: the step in which the progress callback signals cancellation is a
\* page fetch of the loop that leaves the queue as it was after the dequeue
\* (the links of the fetched page are not enqueued), and after it the run
\* dequeues and requests nothing more
C11_CancelObservedBeforeNextDequeue ==
    [][(pc' = "cancelled")
          => (/\ pc = "loop"
              /\ to_crawl # <<>>
              /\ to_crawl' = Tail(to_crawl)
              /\ Len(results') = Len(results) + 1
              /\ visited_urls' = visited_urls \cup {Head(to_crawl)})]_vars

\* the callback cancelled after the first page of a two-page crawl: the page
\* had a crawlable link that is neither visited nor in the queue
C11_Witness ==
    /\ pc = "cancelled"
    /\ max_pages = 2
    /\ Len(results) = 1
    /\ results[1].status_code = 200 /\ results[1].html
    /\ \E i \in 1..Len(results[1].outgoing_links) :
          LET l == results[1].outgoing_links[i]
          IN  /\ should_crawl_url(l, domain)
              /\ normalize_url(l) \notin visited_urls
              /\ normalize_url(l) \notin Range(to_crawl)

\* C12: a task that has ended after cancellation was requested during the
\* crawl, when k >= 1 pages were fetched and more were queued, left the job
\* cancelled with exactly k page rows
C12_CancelKeepsFetchedPages ==
    (task_pc = "finished" /\ cancel_point.fetched >= 1 /\ cancel_point.queued >= 1)
       => (job_status = "cancelled" /\ page_rows = cancel_point.fetched)

\* the crawl run is over
C13_CrawlEnded == task_pc = "idle" /\ pc \in {"done", "rejected", "cancelled"}

\* the task of the job is over and the job is completed, failed or cancelled
C13_JobEnded ==
    /\ pc = "idle"
    /\ task_pc = "finished"
    /\ job_status \in {"completed", "failed", "cancelled"}

C14_PageLog ==
    LET IsPage(r) == r.kind = "page"
    IN  SelectSeq(httpLog, IsPage)

\* C14: every page request that raised or timed out has its result in the
\* results, with status 0, the error set and no html, and its URL is marked
\* visited; the run went on and was not aborted
C14_FailedFetchRecorded ==
    /\ Len(C14_PageLog) = Len(results)
    /\ \A i \in 1..Len(results) :
          (C14_PageLog[i].status = 0)
             => /\ results[i].url = C14_PageLog[i].url
                /\ results[i].status_code = 0
                /\ results[i].error
                /\ ~results[i].html
                /\ C14_PageLog[i].url \in visited_urls
                /\ pc \in {"loop", "done", "cancelled"}

\* the first fetch of the run raised and the loop went on to fetch a second
\* page, which answered 200 with html
C14_Witness ==
    /\ Len(results) = 2
    /\ C14_PageLog[1].status = 0
    /\ results[1].error
    /\ results[2].status_code = 200 /\ results[2].html /\ ~results[2].error
    /\ Cardinality(visited_urls) = 2

\* C15: normalizing a normalized URL returns it unchanged
C15_NormalizeIdempotent ==
    (fn_pc = "renormalized") => (fn_val = fn_arg.url)

\* the claimed registrable domain of a host: a leading www. is ignored
C16_StripWww(h) == IF Lower(h) = "www.example.com" THEN "example.com" ELSE Lower(h)

\* C16: should_crawl_url accepts a URL exactly when its host equals the
\* target domain up to a leading www. on either side, its scheme is http
\* or https, its path has no blocked extension and no blocked pattern
C16_InScopeIffSameSiteAndContent ==
    (fn_pc = "scoped")
       => (fn_val <=> (/\ C16_StripWww(fn_arg.url.host) = C16_StripWww(fn_arg.base_domain)
                       /\ fn_arg.url.scheme \in {"http", "https"}
                       /\ ~EndsWithExt(fn_arg.url.path)
                       /\ \A pat \in skip_patterns : ~Occurs(pat, fn_arg.url.path)))

\* the sitemap requests of the run, in the order they were sent
C17_SitemapLog ==
    LET IsSitemap(r) == r.kind = "sitemap"
    IN  SelectSeq(httpLog, IsSitemap)

\* /sitemap.xml and /sitemap_index.xml of the target
C17_Conventional ==
    << U("https", domain, <<"/", "sitemap", ".xml">>),
       U("https", domain, <<"/", "sitemap_index", ".xml">>) >>

\* C17: once discovery is over, the sitemap requests were sent in priority
\* order (declared ones before /sitemap.xml before /sitemap_index.xml), none
\* was sent after a candidate yielded URLs, and when no candidate yielded a
\* URL every declared sitemap and both conventional paths were requested
C17_SitemapCandidatesInPriorityOrder ==
    (pc \in {"seed", "loop", "done", "cancelled"})
       => LET tried == C17_SitemapLog
              rank(u) == IF u = C17_Conventional[1] THEN 1
                         ELSE IF u = C17_Conventional[2] THEN 2 ELSE 0
          IN  /\ \A i, j \in 1..Len(tried) :
                    i < j => rank(tried[i].url) <= rank(tried[j].url)
              /\ \A i \in 1..(Len(tried) - 1) : tried[i].status # 200
              /\ (\A i \in 1..Len(tried) : tried[i].status # 200)
                    => Range(sitemap_locations) = {tried[i].url : i \in 1..Len(tried)}

\* the number of issues of a severity in the analysis at hand
C18_Count(severity) ==
    Cardinality({i \in 1..Len(fn_val.issues) : fn_val.issues[i].severity = severity})

\* the bonuses the analysis at hand earns
C18_Bonuses ==
    (IF fn_val.title \in 50..60 THEN 3 ELSE 0)
    + (IF fn_val.meta_description \in 120..160 THEN 3 ELSE 0)
    + (IF fn_val.word_count >= 500 THEN 3 ELSE 0)
    + (IF fn_val.h2_tags THEN 2 ELSE 0)
    + (IF fn_val.structured_data_types # {} THEN 3 ELSE 0)
    + (IF "og:title" \in fn_val.og_tags /\ "og:description" \in fn_val.og_tags THEN 2 ELSE 0)
    + (IF fn_val.canonical_url THEN 2 ELSE 0)

\* C18: the score of every analysis is 100 - 15 per critical issue - 8 per
\* warning - 2 per info issue + bonuses, clamped to [0, 100]
C18_ScoreFollowsFormula ==
    (fn_pc = "analyzed")
       => /\ fn_val.seo_score \in 0..100
          /\ fn_val.seo_score =
                Min2(100, Max2(0, 100 - 15 * C18_Count("critical") - 8 * C18_Count("warning")
                                  - 2 * C18_Count("info") + C18_Bonuses))

\* the analysis of the page at hand with a title that raises no issue and
\* earns no bonus
C19_WithPlainTitle == analyze([fn_arg EXCEPT !.title = 40])

\* the issues of the analysis at hand that have the given type
C19_IssuesOfType(type) == {i \in 1..Len(fn_val.issues) : fn_val.issues[i].type = type}

\* what C19 says about the issues: without a title one critical
\* missing_title and no length issue, with a 65-character title one
\* title_too_long warning
C19_TitleIssues ==
    /\ (fn_arg.title = NoText)
          => /\ Cardinality(C19_IssuesOfType("missing_title")) = 1
             /\ \A i \in C19_IssuesOfType("missing_title") :
                   fn_val.issues[i].severity = "critical"
             /\ C19_IssuesOfType("title_too_short") = {}
             /\ C19_IssuesOfType("title_too_long") = {}
    /\ (fn_arg.title = 65)
          => /\ Cardinality(C19_IssuesOfType("title_too_long")) = 1
             /\ \A i \in C19_IssuesOfType("title_too_long") :
                   fn_val.issues[i].severity = "warning"
             /\ C19_IssuesOfType("missing_title") = {}

C20_Recs(title) == {i \in 1..Len(fn_val) : fn_val[i].title = title}

\* the recommendations at hand of type content_quality
C20_ContentRecs == {i \in 1..Len(fn_val) : fn_val[i].recommendation_type = "content_quality"}

\* the page at hand has no H1, no meta description and fewer than 300 words
C20_Case ==
    /\ fn_pc = "recommended"
    /\ fn_arg.h1_tags = <<>>
    /\ fn_arg.meta_description = NoText
    /\ fn_arg.word_count < 300

\* the high-priority on_page recommendations for the missing H1 and the
\* missing meta description, scoped to the page
C20_H1AndMetaRecs ==
    /\ \E i \in C20_Recs("Missing H1 Tag") :
          /\ fn_val[i].priority = "high"
          /\ fn_val[i].recommendation_type = "on_page"
          /\ fn_val[i].page_result_id = fn_arg.id
    /\ \E i \in C20_Recs("Missing Meta Description") :
          /\ fn_val[i].priority = "high"
          /\ fn_val[i].recommendation_type = "on_page"
          /\ fn_val[i].page_result_id = fn_arg.id

\* C20 as stated: such a page gets the two on_page recommendations and a
\* medium-priority content_quality recommendation
C20_ThinPageRecommendations ==
    C20_Case
       => /\ C20_H1AndMetaRecs
          /\ \E i \in C20_ContentRecs :
                fn_val[i].priority = "medium" /\ fn_val[i].page_result_id = fn_arg.id

\* C20, amended: the content_quality recommendation is medium for 1 to 299
\* words and high for a page without any word
C20_ThinPageRecommendationsByWords ==
    C20_Case
       => /\ C20_H1AndMetaRecs
          /\ \E i \in C20_ContentRecs :
                /\ fn_val[i].priority = (IF fn_arg.word_count = 0 THEN "high" ELSE "medium")
                /\ fn_val[i].page_result_id = fn_arg.id
                /\ \A j \in C20_ContentRecs : j = i

\* a page with 100 words, no H1 and no meta description got its
\* recommendations
C20_Witness ==
    /\ C20_Case
    /\ fn_arg.word_count = 100
    /\ C20_Recs("Thin Content") # {}
    /\ C20_Recs("Missing H1 Tag") # {}

\* the recommendation titles each rule check of the per-page pass can emit
C21_Rules ==
    { {"Missing Title Tag", "Title Too Short", "Title Too Long"},
      {"Missing Meta Description", "Meta Description Too Short",
       "Meta Description Too Long"},
      {"Missing H1 Tag", "Multiple H1 Tags", "H1 Too Short", "Improper Heading Hierarchy"},
      {"No Text Content", "Thin Content", "Could Use More Content"},
      {"Not Using HTTPS"},
      {"Not Mobile-Friendly"},
      {"Missing Canonical Tag"},
      {"HTTP Error", "Redirect Chain Detected"},
      {"Page Blocked from Indexing"},
      {"Slow Page Load Time", "Page Load Could Be Faster"},
      {"Images Missing Alt Text"},
      {"Add Structured Data Markup"},
      {"Incomplete Open Graph Tags"},
      {"Improve Internal Linking"} }

C21_HeadingsRule ==
    {"Missing H1 Tag", "Multiple H1 Tags", "H1 Too Short", "Improper Heading Hierarchy"}

\* the recommendations at hand that a rule emitted
C21_RecsOf(rule) == {i \in 1..Len(fn_val) : fn_val[i].title \in rule}

\* the priorities the title rule gives the page at hand when its title is t
C21_TitlePriorities(t) ==
    LET recs == check_title([fn_arg EXCEPT !.title = t])
    IN  {recs[i].priority : i \in 1..Len(recs)}

\* C21 as stated: every rule check emits at most one recommendation for the
\* page, and whatever title the page has, the title rule emits the same
\* priority
C21_OneRecommendationPerRule ==
    fn_pc = "recommended"
       => /\ \A rule \in C21_Rules : Cardinality(C21_RecsOf(rule)) <= 1
          /\ \A t \in TitleLens :
                C21_TitlePriorities(t) \subseteq C21_TitlePriorities(fn_arg.title)
                \/ C21_TitlePriorities(fn_arg.title) = {}

\* the priority each kind of recommendation carries
C21_Priority(title) ==
    IF title \in {"Missing Title Tag", "Missing Meta Description", "Missing H1 Tag",
                  "No Text Content", "Not Using HTTPS", "Not Mobile-Friendly",
                  "HTTP Error", "Page Blocked from Indexing", "Slow Page Load Time"}
    THEN "high"
    ELSE IF title \in {"Title Too Short", "Title Too Long", "Meta Description Too Short",
                       "Multiple H1 Tags", "Thin Content", "Missing Canonical Tag",
                       "Page Load Could Be Faster", "Images Missing Alt Text",
                       "Add Structured Data Markup"}
    THEN "medium"
    ELSE "low"

\* C21, amended: every rule check but the headings check emits at most one
\* recommendation for the page and the headings check at most three; no two
\* recommendations of the page are of the same kind, and a kind of
\* recommendation carries the same priority on every page
C21_OneRecommendationPerKind ==
    fn_pc = "recommended"
       => /\ \A rule \in C21_Rules \ {C21_HeadingsRule} :
                Cardinality(C21_RecsOf(rule)) <= 1
          /\ Cardinality(C21_RecsOf(C21_HeadingsRule)) <= 3
          /\ \A i, j \in 1..Len(fn_val) : fn_val[i].title = fn_val[j].title => i = j
          /\ \A i \in 1..Len(fn_val) :
                /\ fn_val[i].title \in UNION C21_Rules
                /\ fn_val[i].priority = C21_Priority(fn_val[i].title)
                /\ fn_val[i].page_result_id = fn_arg.id

\* a page with two H1s, the first one short, and an H3 without H2 got three
\* recommendations from the headings check
C21_Witness ==
    /\ fn_pc = "recommended"
    /\ Len(fn_arg.h1_tags) = 2
    /\ Cardinality(C21_RecsOf(C21_HeadingsRule)) = 3

\* the analysis at hand is that of markup the parser rejected
C23_Case == fn_pc = "analyzed" /\ ~fn_arg.parses

\* C23: when parsing the HTML fails, the analysis carries a critical
\* parse_error issue, every extracted field stays empty, and the score is
\* the one the scorer computes from the issue list
C23_ParseErrorStillScored ==
    C23_Case
       => /\ \E i \in 1..Len(fn_val.issues) :
                fn_val.issues[i] = SEOIssue("parse_error", "critical")
          /\ fn_val.title = NoText
          /\ fn_val.meta_description = NoText
          /\ fn_val.h1_tags = <<>>
          /\ fn_val.word_count = 0
          /\ fn_val.og_tags = {}
          /\ fn_val.structured_data_types = {}
          /\ fn_val.seo_score = calculate_score(fn_val)

\* the page at hand parses and holds a JSON-LD script with an @type
C24_Case == fn_pc = "analyzed" /\ fn_arg.parses /\ fn_arg.json_ld

\* C24: for a page with a JSON-LD script that has an @type, the analysis
\* lists the type among the structured-data types, has no no_structured_data
\* issue and its score holds the structured-data bonus
C24_JsonLdTypeFound ==
    C24_Case
       => /\ "Article" \in fn_val.structured_data_types
          /\ \A i \in 1..Len(fn_val.issues) : fn_val.issues[i].type # "no_structured_data"
          /\ raw_score(fn_val)
                = raw_score([fn_val EXCEPT !.structured_data_types = {}]) + 3

\* C27: at every point of a crawl run the frontier queue holds no URL twice
\* and no URL of the visited set
C27_FrontierDistinctAndUnvisited ==
    /\ \A i, j \in 1..Len(to_crawl) : to_crawl[i] = to_crawl[j] => i = j
    /\ \A i \in 1..Len(to_crawl) : to_crawl[i] \notin visited_urls

\* the loop goes on with a non-empty frontier after a fetched page linked to
\* a URL that was visited before and to one that is still queued
C27_Witness ==
    /\ pc = "loop"
    /\ to_crawl # <<>>
    /\ \E i \in 1..Len(results) :
          /\ \E k \in 1..Len(results[i].outgoing_links) :
                results[i].outgoing_links[k] \in visited_urls
          /\ \E k \in 1..Len(results[i].outgoing_links) :
                results[i].outgoing_links[k] \in Range(to_crawl)

\* C28: the result list of a crawl never holds two results with the same
\* url, redirected fetches included
C28_NoTwoResultsWithSameUrl ==
    \A i, j \in 1..Len(results) : results[i].url = results[j].url => i = j

\* a path without the "/" it may end with (the path of a bare origin is empty)
C29_WithoutTrailingSlash(path) ==
    IF path # <<>> /\ Last(path) = "/" THEN Front(path) ELSE path

\* the two URLs differ only by a trailing slash on the path
C29_DifferBySlash(u, v) ==
    /\ u # v
    /\ u.scheme = v.scheme /\ u.host = v.host /\ u.hasq = v.hasq /\ u.query = v.query
    /\ C29_WithoutTrailingSlash(u.path) = C29_WithoutTrailingSlash(v.path)

\* C29: URLs that differ only by a trailing slash, the bare root included,
\* are one frontier entry: no two of them are queued, visited or fetched in
\* the same run
C29_TrailingSlashOneEntry ==
    /\ \A i, j \in 1..Len(to_crawl) : ~C29_DifferBySlash(to_crawl[i], to_crawl[j])
    /\ \A u, v \in visited_urls : ~C29_DifferBySlash(u, v)
    /\ \A i, j \in PageRequests : ~C29_DifferBySlash(httpLog[i].url, httpLog[j].url)

\* C22: the recommendations of a crawl are generated at most once: what is
\* stored for the crawl is nothing or the one set generated from its pages,
\* whatever requests and pipeline did
C22_RecommendationsGeneratedOnce ==
    ai_recommendations \in {<<>>, RecommendationRows(page_results)}

\* the score the scorer gives a stored row for its issue list and signals
C25_ScorerResult(row) == calculate_score(row)

\* C25: in every stored page record the seo_score is the scorer's result for
\* the issue list and signals of the record, every critical issue of the
\* list counting 15 points
C25_StoredScoreIsScorerResult ==
    \A i \in 1..Len(page_results) :
       page_results[i].seo_score = C25_ScorerResult(page_results[i])

\* C26: when every analysed page of a crawl has has_ssl = true, the
\* recommendations stored for the crawl hold no HTTPS recommendation,
\* page-scoped or site-wide
C26_NoHttpsRecommendationWhenAllSsl ==
    (\A i \in 1..Len(page_results) : page_results[i].has_ssl)
       => \A k \in 1..Len(ai_recommendations) :
             ai_recommendations[k].title
                \notin {"Not Using HTTPS", "Incomplete HTTPS Migration"}

\* C30: for each website at most one crawl job is in status pending or
\* running at any time, also when two start requests for the same website
\* are handled concurrently.
C30_AtMostOneActiveCrawl == Cardinality(ActiveCrawls) <= 1

====
